---- MODULE Spec2Model ----
(***************************************************************************)
(* Verification model of the recommendation core of recoai:                *)
(*   - get_or_create_embedding / RedisLock   (app/domain/services/         *)
(*     embedding_svc.py, app/utils/locks.py)                               *)
(*   - rag_answer and its schema retry       (rag_svc.py)                  *)
(*   - retrieve_candidates                   (retrieval.py)                *)
(*   - recommend                             (pipeline_svc.py)             *)
(*   - get_xsell_products_cached_for_product (xsell_svc.py)                *)
(*                                                                         *)
(* Scores are fixed-point: one unit is 1/Scale, so 0.5 is 500.             *)
(***************************************************************************)
EXTENDS Integers, Sequences, FiniteSets, TLC

\* ------------------------------------------------------------------------
\* Bounds of the model
\* ------------------------------------------------------------------------
\* Number of concurrent get_or_create_embedding requests for the one key.
NumReq == 2
\* Polls of RedisLock.wait: stands for range(timeout * 10) with the
\* configured settings.vector_lock_ttl.
WaitPolls == 2

\* The vector the provider computes from the product's text for the kind.
TrueVec == 1
\* Absent cache entry / absent stored vector / free lock / None.
Nil == 0

Requests == 1..NumReq

\* ------------------------------------------------------------------------
\* Scores, items and constants (app/domain/services/constants.py)
\* ------------------------------------------------------------------------
\* Fixed-point unit of a score: the float 1.0 of RankItem.score (le=1.0).
Scale == 1000

RERANK_ALPHA == (3 * Scale) \div 4
MIN_SCORE_RETRIEVAL_SIM == Scale \div 2
MIN_SCORE_RETRIEVAL_COMP == Scale \div 2
MIN_SCORE_RETRIEVAL_XSELL == 0 * Scale
MIN_SCORE_RETRIEVAL_UPSELL == 0 * Scale

KIND_SIMILAR == "sim"
KIND_SIMILAR_RICH == "sim_rich"
KIND_COMPLEMENTARY == "comp"
KIND_COMPLEMENTARY_RICH == "comp_rich"
KIND_XSELL == "xsell"
KIND_UPSELL == "upsell"

\* models/product.py:23-27  RecoItem; rationale "None" stands for None
RecoItem(pid, score, rationale) ==
  [product_id |-> pid, score |-> score, rationale |-> rationale]

\* ------------------------------------------------------------------------
\* rag_svc.py: validation of the completion, schema retry, blending
\* ------------------------------------------------------------------------
\* A product_id the schema rejects (min_length=1).
EmptyId == 0

\* rag_svc.py:38-61, 75-84  json.loads + RankResponse.model_validate
ParseOk(content) ==
  /\ content.json
  /\ content.qid
  /\ \A i \in DOMAIN content.results :
       /\ content.results[i].product_id # EmptyId
       /\ content.results[i].score >= 0
       /\ content.results[i].score <= Scale
       /\ content.results[i].rationale # "too_long"

RECURSIVE DedupeFrom(_, _, _, _)
DedupeFrom(items, i, seen, deduped) ==
  IF i > Len(items) THEN deduped
  ELSE IF items[i].product_id \in seen
         THEN DedupeFrom(items, i + 1, seen, deduped)
         ELSE DedupeFrom(items, i + 1, seen \cup {items[i].product_id},
                         Append(deduped, items[i]))

\* A parse that returns the validated items as they are, repeated ids
\* included.
DedupeKeepsAll(items) == items

\* rag_svc.py:86-93  deduplicate while preserving order
Dedupe(items) == DedupeFrom(items, 1, {}, <<>>)

\* rag_svc.py:243-246  the messages of the first completion call
FirstMessages == <<"system_prompt", "user_payload">>

\* rag_svc.py:154-169  what a retry appends: a corrective system message
\* and a user message carrying the validation error and the JSON schema
RetryMessages == <<"system_corrective", "user_schema">>

\* rag_svc.py:145-170  the attempt loop; answers[k] is what the provider
\* returns to the k-th completion call of this rerank
RECURSIVE RetryFrom(_, _, _, _)
RetryFrom(answers, attempt, maxRetries, messages) ==
  LET content == answers[attempt + 1] IN
  IF content.tag = "error"
    THEN [ok |-> FALSE, exc |-> "provider", used |-> 0, ranked |-> <<>>,
          calls |-> attempt + 1, messages |-> messages]
  ELSE IF ParseOk(content)
    THEN [ok |-> TRUE, exc |-> "none", used |-> attempt + 1,
          ranked |-> Dedupe(content.results),
          calls |-> attempt + 1, messages |-> messages]
  ELSE IF attempt = maxRetries
    THEN [ok |-> FALSE, exc |-> "ValueError", used |-> 0, ranked |-> <<>>,
          calls |-> attempt + 1, messages |-> messages]
  ELSE RetryFrom(answers, attempt + 1, maxRetries, messages \o RetryMessages)

\* A retry loop that gives up one attempt early.
RerankOneRetryLess(answers, maxRetries) ==
  RetryFrom(answers, 0, maxRetries - 1, FirstMessages)

\* An attempt loop that treats a raising completion call as one more
\* invalid completion.
RECURSIVE RetryAnyFailureFrom(_, _, _, _)
RetryAnyFailureFrom(answers, attempt, maxRetries, messages) ==
  LET content == answers[attempt + 1] IN
  IF content.tag = "content" /\ ParseOk(content)
    THEN [ok |-> TRUE, exc |-> "none", used |-> attempt + 1,
          ranked |-> Dedupe(content.results),
          calls |-> attempt + 1, messages |-> messages]
  ELSE IF attempt = maxRetries
    THEN [ok |-> FALSE, exc |-> "ValueError", used |-> 0, ranked |-> <<>>,
          calls |-> attempt + 1, messages |-> messages]
  ELSE RetryAnyFailureFrom(answers, attempt + 1, maxRetries,
                           messages \o RetryMessages)

RerankRetryingAnyFailure(answers, maxRetries) ==
  RetryAnyFailureFrom(answers, 0, maxRetries, FirstMessages)

\* rag_svc.py:130-170  _rerank_with_schema_retry
RerankWithSchemaRetry(answers, maxRetries) ==
  RetryFrom(answers, 0, maxRetries, FirstMessages)

\* rag_svc.py:259  max_retries=2
max_retries == 2

\* Threshold that forgets the "sim" family.
MinScoreThresholdNone(kind) == 0

\* rag_svc.py:386-398  _min_score_threshold
MinScoreThreshold(kind) ==
  IF kind \in {KIND_SIMILAR, KIND_SIMILAR_RICH}
    THEN MIN_SCORE_RETRIEVAL_SIM
  ELSE IF kind \in {KIND_COMPLEMENTARY, KIND_COMPLEMENTARY_RICH}
    THEN MIN_SCORE_RETRIEVAL_COMP
  ELSE IF kind = KIND_XSELL THEN MIN_SCORE_RETRIEVAL_XSELL
  ELSE IF kind = KIND_UPSELL THEN MIN_SCORE_RETRIEVAL_UPSELL
  ELSE 0

\* prompts.py:3-11, 32-79  kinds system_prompt and user_task know
PromptKinds == {KIND_COMPLEMENTARY, KIND_SIMILAR, KIND_XSELL}

\* rag_svc.py:263-264, 271  dict built from a list: the last entry of an id
\* wins; absent ids give the default
RECURSIVE LookupFrom(_, _, _, _, _)
LookupFrom(items, field, pid, i, default) ==
  IF i = 0 THEN default
  ELSE IF items[i].product_id = pid THEN items[i][field]
  ELSE LookupFrom(items, field, pid, i - 1, default)

DictGet(items, field, pid, default) ==
  LookupFrom(items, field, pid, Len(items), default)

\* rag_svc.py:277  RERANK_ALPHA * llm + (1 - RERANK_ALPHA) * init
Blend(llm, init) ==
  (RERANK_ALPHA * llm + (Scale - RERANK_ALPHA) * init) \div Scale

\* list.sort(key=score, reverse=True): stable, equal scores keep their order
RECURSIVE InsertDesc(_, _, _)
InsertDesc(sorted, x, i) ==
  IF i > Len(sorted) THEN Append(sorted, x)
  ELSE IF sorted[i].score < x.score
    THEN SubSeq(sorted, 1, i - 1) \o <<x>> \o SubSeq(sorted, i, Len(sorted))
  ELSE InsertDesc(sorted, x, i + 1)

RECURSIVE SortFrom(_, _, _)
SortFrom(items, i, sorted) ==
  IF i > Len(items) THEN sorted
  ELSE SortFrom(items, i + 1, InsertDesc(sorted, items[i], 1))

\* rag_svc.py:284  blended.sort(key=lambda x: x[1], reverse=True)
SortDesc(items) == SortFrom(items, 1, <<>>)

\* rag_svc.py:197  ids = [c.product_id for c in candidates]
Ids(candidates) == [i \in DOMAIN candidates |-> candidates[i].product_id]

\* rag_svc.py:232  missing = [i for i in ids if i not in by_id]
Missing(candidates, present) ==
  SelectSeq(Ids(candidates), LAMBDA pid : pid \notin present)

\* rag_svc.py:230  ids of the passages the completion is shown
Shown(candidates, present) ==
  SelectSeq(Ids(candidates), LAMBDA pid : pid \in present)

\* rag_svc.py:270-279  the blended list before sorting
Blended(candidates, present, ranked) ==
  LET ids == Ids(candidates)
      missing == Missing(candidates, present)
      first == [i \in DOMAIN ids |->
                  RecoItem(ids[i],
                           Blend(DictGet(ranked, "score", ids[i], 0),
                                 DictGet(candidates, "score", ids[i], 0)),
                           DictGet(ranked, "rationale", ids[i], ""))]
      second == [i \in DOMAIN missing |->
                   RecoItem(missing[i],
                            DictGet(candidates, "score", missing[i], 0),
                            "")]
  IN first \o second

\* rag_svc.py:283-296  sort, threshold filter, rationale only when requested
Finish(kind, blended, include_rationale) ==
  LET threshold == MinScoreThreshold(kind)
      kept == SelectSeq(SortDesc(blended),
                        LAMBDA t : t.score >= threshold)
  IN [i \in DOMAIN kept |->
        RecoItem(kept[i].product_id, kept[i].score,
                 IF include_rationale THEN kept[i].rationale ELSE "None")]

\* rag_svc.py:176-296  rag_answer.  hydrateErr: the document fetch raises;
\* present: candidate ids whose document the store returns.
RagAnswer(kind, candidates, hydrateErr, present, answers, include_rationale) ==
  IF candidates = <<>>
    THEN [raised |-> FALSE, items |-> candidates, applied |-> FALSE,
          calls |-> 0, used |-> 0, messages |-> <<>>]
  ELSE IF hydrateErr \/ kind \notin PromptKinds
    THEN [raised |-> TRUE, items |-> <<>>, applied |-> FALSE,
          calls |-> 0, used |-> 0, messages |-> <<>>]
  ELSE
    LET r == RerankWithSchemaRetry(answers, max_retries) IN
    IF ~r.ok
      THEN [raised |-> FALSE, items |-> candidates, applied |-> FALSE,
            calls |-> r.calls, used |-> 0,
            messages |-> r.messages]
      ELSE [raised |-> FALSE,
            items |-> Finish(kind, Blended(candidates, present, r.ranked),
                             include_rationale),
            applied |-> TRUE, calls |-> r.calls, used |-> r.used,
            messages |-> r.messages]

\* ------------------------------------------------------------------------
\* Bounded inputs of rag_answer
\* ------------------------------------------------------------------------
\* Longest candidate list the rerank is tried on.
MaxCand == 3

\* n tenths as a score
Tenths(n) == (n * Scale) \div 10

CandScores == {Tenths(9), Tenths(7), Tenths(5), Tenths(2)}

\* Candidate lists as the store ranks them: ids 1..n, scores non-increasing.
CandLists(n) ==
  { [i \in 1..n |-> RecoItem(i, f[i], "None")] :
      f \in { g \in [1..n -> CandScores] :
                \A i, j \in 1..n : i < j => g[i] >= g[j] } }

AllCandLists == UNION { CandLists(n) : n \in 0..MaxCand }

\* An id the model invents: no candidate carries it.
InventedId == 99

RankItem(pid, score, rationale) ==
  [product_id |-> pid, score |-> score, rationale |-> rationale]

Content(json, qid, results) ==
  [tag |-> "content", json |-> json, qid |-> qid, results |-> results]

ProviderError ==
  [tag |-> "error", json |-> FALSE, qid |-> FALSE, results |-> <<>>]

\* Completions that fail validation: not JSON, no query_product_id, a score
\* above 1.0.
InvalidContent(k) ==
  IF k % 3 = 1 THEN Content(FALSE, FALSE, <<>>)
  ELSE IF k % 3 = 2 THEN Content(TRUE, FALSE, <<>>)
  ELSE Content(TRUE, TRUE, <<RankItem(1, Scale + Tenths(5), "None")>>)

LlmPattern(i) ==
  IF i % 3 = 1 THEN Tenths(6) ELSE IF i % 3 = 2 THEN Tenths(9) ELSE Tenths(2)

\* Completions that pass validation, for n candidates.
ValidContents(n) ==
  { Content(TRUE, TRUE, r) : r \in
      { [i \in 1..n |-> RankItem(i, LlmPattern(i), "r")],
        [i \in 1..n |-> RankItem(i, Tenths(6), "r")],
        [i \in 1..n |-> RankItem(i, 0, "None")],
        [i \in 1..n |-> RankItem(n + 1 - i, Tenths(10 - 3 * ((i - 1) % 3)), "r")],
        <<RankItem(1, Tenths(9), "r")>>,
        <<RankItem(1, Tenths(9), "first"), RankItem(1, Tenths(2), "second"),
          RankItem(2, Tenths(6), "r")>>,
        <<RankItem(InventedId, Tenths(9), "r"), RankItem(2, Tenths(2), "r")>>,
        <<>> } }

\* What the provider answers to the successive completion calls of one
\* rerank: k invalid completions, then t, then valid completions for any
\* further call.
AnswersOf(k, t, n) ==
  LET pad == Content(TRUE, TRUE, [i \in 1..n |-> RankItem(i, LlmPattern(i), "r")])
  IN [j \in 1..(max_retries + 2) |->
        IF j <= k THEN InvalidContent(j) ELSE IF j = k + 1 THEN t ELSE pad]

AnswerSeqs(n) ==
  { AnswersOf(k, t, n) :
      k \in 0..(max_retries + 1), t \in {ProviderError} \cup ValidContents(n) }

\* Documents the store returns for the candidates: all, or all but one.
PresentSets(n) == {1..n} \cup { (1..n) \ {m} : m \in 1..n }

RagKinds ==
  {KIND_SIMILAR, KIND_COMPLEMENTARY, KIND_XSELL, KIND_UPSELL, KIND_SIMILAR_RICH}

RagIdleIn ==
  [kind |-> KIND_SIMILAR, candidates |-> <<>>, hydrateErr |-> FALSE,
   present |-> {}, answers |-> <<>>, include_rationale |-> FALSE]

RagIdleOut ==
  [raised |-> FALSE, items |-> <<>>, applied |-> FALSE, calls |-> 0,
   used |-> 0, messages |-> <<>>]

VARIABLES
  \* ---- embedding cache & lock (one (product, kind) key) ----
  epc,          \* position of each request inside get_or_create_embedding
  vcache,       \* Redis value under cache_key (Nil when absent)
  storeVec,     \* vectors.<kind>.vector of the product document
  prodExists,   \* the product document exists in the store
  lockKey,      \* Redis value under "lock:<cache_key>" (Nil when absent)
  acquired,     \* local `acquired` of each request
  polls,        \* iterations of RedisLock.wait done by each request
  evec,         \* value returned by each request (Nil stands for None)
  eraised,      \* the request raised instead of returning
  embCalls,     \* embeddings.create calls made by each request
  inFlight,     \* callers currently inside embeddings.create
  bpc,          \* position of the batch job for the same key
  bforce,       \* `force` argument of the batch job
  ehist,        \* history: what the environment did during the run
  \* ---- one rag_answer call ----
  rpc,          \* "ready" before the call, "done" after it
  rin,          \* arguments and environment of the call
  rout,         \* what the call returned
  \* ---- recommend / cross-sell calls served one after the other ----
  svc,          \* endpoint this run exercises: "reco", "xsell" or "none"
  skind,        \* kind of the recommend requests of this run
  srcExists,    \* the source product document exists
  vecHits,      \* what $vectorSearch ranks for the product's vector
  textHits,     \* what the text $search ranks for the fallback text
  docsMissing,  \* candidate ids whose document the store does not return
  svcStoredVec, \* the product document carries vectors.<kind>.vector
  svcVecCached, \* the vector cache holds the product's vector
  senv,         \* what the providers and the searches do during this run
  recoCache,    \* result cache of recommend, by rerank mode of the key
  xs,           \* cross-sell run: the arguments and the purchase events
  xsellCache,   \* cross-sell cache entry of the run's arguments
  expiredSince, \* a cache entry expired since the last call
  last,         \* the last call: arguments, path taken, result, effects
  \* ---- result-cache keys of two requests ----
  keyq,         \* the two requests and the keys build_cache_key gave them
  \* ---- one batch_get_or_create_embeddings job ----
  job,          \* arguments, store, position, counters and effects
  \* ---- one blend of a model score and a retrieval score ----
  fp,           \* the two scores as decimals and the blended double
  \* ---- the search queries of one retrieval ----
  sq            \* arguments of the retrieval and the queries it submitted

embVars == <<epc, vcache, storeVec, prodExists, lockKey, acquired, polls,
             evec, eraised, embCalls, inFlight, bpc, bforce, ehist>>

ragVars == <<rpc, rin, rout>>

recoVars == <<svc, skind, srcExists, vecHits, textHits, docsMissing,
              svcStoredVec, svcVecCached, senv, recoCache, xs, xsellCache,
              expiredSince, last>>

toolVars == <<keyq, job, fp, sq>>

vars == <<embVars, ragVars, recoVars, toolVars>>

\* ------------------------------------------------------------------------
\* get_or_create_embedding, one action per await
\* ------------------------------------------------------------------------
EmbInitCommon ==
  /\ epc = [p \in Requests |-> "cache_get"]
  /\ vcache \in {Nil, TrueVec}
  /\ storeVec \in {Nil, TrueVec}
  /\ prodExists \in BOOLEAN
  /\ (storeVec # Nil => prodExists)
  /\ lockKey = Nil
  /\ acquired = [p \in Requests |-> FALSE]
  /\ polls = [p \in Requests |-> 0]
  /\ evec = [p \in Requests |-> Nil]
  /\ eraised = [p \in Requests |-> FALSE]
  /\ embCalls = [p \in Requests |-> 0]
  /\ inFlight = {}
  /\ bforce = FALSE
  /\ ehist = [uncached0 |-> (vcache = Nil /\ storeVec = Nil),
              cached0 |-> (vcache # Nil), stolen |-> FALSE,
              lockExpired |-> FALSE, provFailed |-> FALSE,
              cacheExpired |-> FALSE]

\* pipeline_svc.py:118-125  the one call of get_or_create_embedding passes
\* use_db_fallback=True, the default of embedding_svc.py:71
use_db_fallback == TRUE

\* A first cache.get after which the store is read even on a hit.
CacheGetThenStore(p) ==
  /\ epc[p] = "cache_get"
  /\ evec' = [evec EXCEPT ![p] = vcache]
  /\ epc' = [epc EXCEPT ![p] = "db_get"]
  /\ UNCHANGED <<vcache, storeVec, prodExists, lockKey, acquired, polls,
                 eraised, embCalls, inFlight, bpc, bforce, ehist>>

\* embedding_svc.py:94-99  first cache.get
CacheGet(p) ==
  /\ epc[p] = "cache_get"
  /\ IF vcache # Nil
       THEN /\ evec' = [evec EXCEPT ![p] = vcache]
            /\ epc' = [epc EXCEPT ![p] = "done"]
       ELSE /\ epc' = [epc EXCEPT ![p] =
                         IF use_db_fallback THEN "db_get" ELSE "acquire"]
            /\ UNCHANGED evec
  /\ UNCHANGED <<vcache, storeVec, prodExists, lockKey, acquired, polls,
                 eraised, embCalls, inFlight, bpc, bforce, ehist>>

\* embedding_svc.py:99-101  prod_repo.get_vector
DbGet(p) ==
  /\ epc[p] = "db_get"
  /\ IF storeVec # Nil
       THEN /\ evec' = [evec EXCEPT ![p] = storeVec]
            /\ epc' = [epc EXCEPT ![p] = "backfill"]
       ELSE /\ epc' = [epc EXCEPT ![p] = "acquire"]
            /\ UNCHANGED evec
  /\ UNCHANGED <<vcache, storeVec, prodExists, lockKey, acquired, polls,
                 eraised, embCalls, inFlight, bpc, bforce, ehist>>

\* embedding_svc.py:103-104  cache.set of the stored vector, then return
Backfill(p) ==
  /\ epc[p] = "backfill"
  /\ vcache' = evec[p]
  /\ epc' = [epc EXCEPT ![p] = "done"]
  /\ UNCHANGED <<storeVec, prodExists, lockKey, acquired, polls, evec,
                 eraised, embCalls, inFlight, bpc, bforce, ehist>>

\* Acquire without NX: the SET overwrites a lock another request holds.
AcquireNoNX(p) ==
  /\ epc[p] = "acquire"
  /\ lockKey' = p
  /\ acquired' = [acquired EXCEPT ![p] = TRUE]
  /\ epc' = [epc EXCEPT ![p] = "recheck"]
  /\ UNCHANGED <<vcache, storeVec, prodExists, polls, evec, eraised,
                 embCalls, inFlight, bpc, bforce, ehist>>

\* locks.py:18-24  SET lock:<key> token NX EX ttl
Acquire(p) ==
  /\ epc[p] = "acquire"
  /\ IF lockKey = Nil
       THEN /\ lockKey' = p
            /\ acquired' = [acquired EXCEPT ![p] = TRUE]
            /\ epc' = [epc EXCEPT ![p] = "recheck"]
       ELSE /\ epc' = [epc EXCEPT ![p] = "wait"]
            /\ UNCHANGED <<lockKey, acquired>>
  /\ UNCHANGED <<vcache, storeVec, prodExists, polls, evec, eraised,
                 embCalls, inFlight, bpc, bforce, ehist>>

\* A poll loop without an iteration limit.
WaitUnbounded(p) ==
  /\ epc[p] = "wait"
  /\ epc' = [epc EXCEPT ![p] = IF lockKey = Nil THEN "wait_get" ELSE "wait"]
  /\ UNCHANGED <<vcache, storeVec, prodExists, lockKey, acquired, polls,
                 evec, eraised, embCalls, inFlight, bpc, bforce, ehist>>

\* locks.py:30-36  one iteration of the poll loop of RedisLock.wait
Wait(p) ==
  /\ epc[p] = "wait"
  /\ IF polls[p] >= WaitPolls
       THEN /\ epc' = [epc EXCEPT ![p] = "wait_get"]
            /\ UNCHANGED polls
       ELSE /\ polls' = [polls EXCEPT ![p] = @ + 1]
            /\ epc' = [epc EXCEPT ![p] =
                         IF lockKey = Nil THEN "wait_get" ELSE "wait"]
  /\ UNCHANGED <<vcache, storeVec, prodExists, lockKey, acquired, evec,
                 eraised, embCalls, inFlight, bpc, bforce, ehist>>

\* A waiter that computes the vector itself when its wait is over.
WaitGetComputes(p) ==
  /\ epc[p] = "wait_get"
  /\ evec' = [evec EXCEPT ![p] = vcache]
  /\ epc' = [epc EXCEPT ![p] = IF vcache = Nil THEN "load" ELSE "done"]
  /\ UNCHANGED <<vcache, storeVec, prodExists, lockKey, acquired, polls,
                 eraised, embCalls, inFlight, bpc, bforce, ehist>>

\* embedding_svc.py:114  return await cache.get(cache_key)
WaitGet(p) ==
  /\ epc[p] = "wait_get"
  /\ evec' = [evec EXCEPT ![p] = vcache]
  /\ epc' = [epc EXCEPT ![p] = "done"]
  /\ UNCHANGED <<vcache, storeVec, prodExists, lockKey, acquired, polls,
                 eraised, embCalls, inFlight, bpc, bforce, ehist>>

\* The lock holder computes without looking at the cache again.
RecheckSkipped(p) ==
  /\ epc[p] = "recheck"
  /\ epc' = [epc EXCEPT ![p] = "load"]
  /\ UNCHANGED <<vcache, storeVec, prodExists, lockKey, acquired, polls,
                 evec, eraised, embCalls, inFlight, bpc, bforce, ehist>>

\* A double-check that finds the vector and returns without it.
RecheckDropsHit(p) ==
  /\ epc[p] = "recheck"
  /\ epc' = [epc EXCEPT ![p] = IF vcache # Nil THEN "release" ELSE "load"]
  /\ UNCHANGED <<vcache, storeVec, prodExists, lockKey, acquired, polls,
                 evec, eraised, embCalls, inFlight, bpc, bforce, ehist>>

\* embedding_svc.py:118-120  double-check of the cache under the lock
Recheck(p) ==
  /\ epc[p] = "recheck"
  /\ IF vcache # Nil
       THEN /\ evec' = [evec EXCEPT ![p] = vcache]
            /\ epc' = [epc EXCEPT ![p] = "release"]
       ELSE /\ epc' = [epc EXCEPT ![p] = "load"]
            /\ UNCHANGED evec
  /\ UNCHANGED <<vcache, storeVec, prodExists, lockKey, acquired, polls,
                 eraised, embCalls, inFlight, bpc, bforce, ehist>>

\* embedding_svc.py:122-136  load the product, build the text, start the
\* provider call
Load(p) ==
  /\ epc[p] = "load"
  /\ IF prodExists
       THEN /\ embCalls' = [embCalls EXCEPT ![p] = @ + 1]
            /\ inFlight' = inFlight \cup {p}
            /\ epc' = [epc EXCEPT ![p] = "embed"]
       ELSE /\ epc' = [epc EXCEPT ![p] = "release"]
            /\ UNCHANGED <<embCalls, inFlight>>
  /\ UNCHANGED <<vcache, storeVec, prodExists, lockKey, acquired, polls,
                 evec, eraised, bpc, bforce, ehist>>

\* A provider call made with the text of another product or kind.
EmbedOkOtherText(p) ==
  /\ epc[p] = "embed"
  /\ inFlight' = inFlight \ {p}
  /\ evec' = [evec EXCEPT ![p] = TrueVec + 1]
  /\ epc' = [epc EXCEPT ![p] = "cache_set"]
  /\ UNCHANGED <<vcache, storeVec, prodExists, lockKey, acquired, polls,
                 eraised, embCalls, bpc, bforce, ehist>>

\* embedding_svc.py:136-137  the provider answers
EmbedOk(p) ==
  /\ epc[p] = "embed"
  /\ inFlight' = inFlight \ {p}
  /\ evec' = [evec EXCEPT ![p] = TrueVec]
  /\ epc' = [epc EXCEPT ![p] = "cache_set"]
  /\ UNCHANGED <<vcache, storeVec, prodExists, lockKey, acquired, polls,
                 eraised, embCalls, bpc, bforce, ehist>>

\* embedding_svc.py:136  the provider raises (error or timeout)
EmbedFail(p) ==
  /\ epc[p] = "embed"
  /\ inFlight' = inFlight \ {p}
  /\ eraised' = [eraised EXCEPT ![p] = TRUE]
  /\ ehist' = [ehist EXCEPT !.provFailed = TRUE]
  /\ epc' = [epc EXCEPT ![p] = "release"]
  /\ UNCHANGED <<vcache, storeVec, prodExists, lockKey, acquired, polls,
                 evec, embCalls, bpc, bforce>>

\* A holder that goes on to its release without the cache write.
CacheSetSkipped(p) ==
  /\ epc[p] = "cache_set"
  /\ epc' = [epc EXCEPT ![p] = "release"]
  /\ UNCHANGED <<vcache, storeVec, prodExists, lockKey, acquired, polls, evec,
                 eraised, embCalls, inFlight, bpc, bforce, ehist>>

\* embedding_svc.py:141  cache.set of the computed vector
CacheSet(p) ==
  /\ epc[p] = "cache_set"
  /\ vcache' = evec[p]
  /\ epc' = [epc EXCEPT ![p] = "release"]
  /\ UNCHANGED <<storeVec, prodExists, lockKey, acquired, polls, evec,
                 eraised, embCalls, inFlight, bpc, bforce, ehist>>

\* embedding_svc.py:118  the cache.get under the lock raises
RecheckFail(p) ==
  /\ epc[p] = "recheck"
  /\ eraised' = [eraised EXCEPT ![p] = TRUE]
  /\ epc' = [epc EXCEPT ![p] = "release"]
  /\ UNCHANGED <<vcache, storeVec, prodExists, lockKey, acquired, polls,
                 evec, embCalls, inFlight, bpc, bforce, ehist>>

\* embedding_svc.py:141  the cache.set of the computed vector raises
CacheSetFail(p) ==
  /\ epc[p] = "cache_set"
  /\ eraised' = [eraised EXCEPT ![p] = TRUE]
  /\ evec' = [evec EXCEPT ![p] = Nil]
  /\ epc' = [epc EXCEPT ![p] = "release"]
  /\ UNCHANGED <<vcache, storeVec, prodExists, lockKey, acquired, polls,
                 embCalls, inFlight, bpc, bforce, ehist>>

\* locks.py:26-28  DEL lock:<key>, whoever owns it
ReleaseKey(holder, key) == Nil

\* A release placed after the last statement of the try block instead of in
\* its finally clause: an exception leaves the function without it.
ReleaseUnlessRaised(p) ==
  /\ epc[p] = "release"
  /\ acquired[p]
  /\ lockKey' = IF eraised[p] THEN lockKey ELSE ReleaseKey(p, lockKey)
  /\ epc' = [epc EXCEPT ![p] = "done"]
  /\ UNCHANGED <<vcache, storeVec, prodExists, acquired, polls, evec,
                 eraised, embCalls, inFlight, bpc, bforce, ehist>>

\* embedding_svc.py:150-152  finally: if acquired: await lock.release()
\* ehist.stolen records a DEL that removed the key of another holder.
Release(p) ==
  /\ epc[p] = "release"
  /\ acquired[p]
  /\ lockKey' = ReleaseKey(p, lockKey)
  /\ epc' = [epc EXCEPT ![p] = "done"]
  /\ ehist' = [ehist EXCEPT !.stolen = @ \/ lockKey \notin {Nil, p}]
  /\ UNCHANGED <<vcache, storeVec, prodExists, acquired, polls, evec,
                 eraised, embCalls, inFlight, bpc, bforce>>

\* The lock key reaches its TTL (SET ... EX ttl) and Redis drops it.
LockExpire ==
  /\ lockKey # Nil
  /\ lockKey' = Nil
  /\ ehist' = [ehist EXCEPT !.lockExpired = TRUE]
  /\ UNCHANGED <<epc, vcache, storeVec, prodExists, acquired, polls, evec,
                 eraised, embCalls, inFlight, bpc, bforce>>

\* The cached vector reaches settings.vector_cache_ttl and Redis drops it.
VecCacheExpire ==
  /\ vcache # Nil
  /\ vcache' = Nil
  /\ ehist' = [ehist EXCEPT !.cacheExpired = TRUE]
  /\ UNCHANGED <<epc, storeVec, prodExists, lockKey, acquired, polls, evec,
                 eraised, embCalls, inFlight, bpc, bforce>>

EmbStep(p) ==
  \/ CacheGet(p) \/ DbGet(p) \/ Backfill(p) \/ Acquire(p) \/ Wait(p)
  \/ WaitGet(p) \/ Recheck(p) \/ Load(p) \/ EmbedOk(p) \/ EmbedFail(p)
  \/ CacheSet(p) \/ Release(p)

RagIdle == rpc = "off" /\ rin = RagIdleIn /\ rout = RagIdleOut

\* ---- idle values of the recommend variables ----
\* The environment of a run in which nothing fails.  cache: "up" for a
\* working cache store, "none" when get_redis returned None (no REDIS_URL or
\* a failed connect), "raising" when every operation of the client raises.
\* histErr: the distinct queries on the events collection raise.
CalmEnv ==
  [embOk |-> TRUE, vecErr |-> FALSE, textErr |-> FALSE, rag |-> "ok",
   cache |-> "up", histErr |-> FALSE]

\* An absent key.  reranked records whether the stored list came out of a
\* blend of completion scores.
NoEntry == [present |-> FALSE, items |-> <<>>, reranked |-> FALSE]

NoCall ==
  [op |-> "none", use_llm |-> FALSE, use_text_fallback |-> FALSE,
   include_rationale |-> FALSE, path |-> "none",
   items |-> <<>>, count |-> 0,
   srcLookups |-> 0, embCalls |-> 0, llmCalls |-> 0,
   vecSearches |-> 0, textSearches |-> 0,
   hadVec |-> FALSE, vecErr |-> FALSE, textErr |-> FALSE, retrieved |-> <<>>,
   llm_applied |-> FALSE, reranked |-> FALSE,
   repeat |-> FALSE, sameAsPrev |-> FALSE]

\* An absent cross-sell key.  fmt: "result" for RecoResult JSON, "legacy"
\* for the JSON list of item dicts older versions stored.
XNoEntry == [fmt |-> "none", items |-> <<>>, count |-> 0, reranked |-> FALSE]

XsIdle ==
  [user_id |-> "None", limit |-> 0, use_llm_rerank |-> FALSE,
   include_rationale |-> FALSE, exclude_already_purchased |-> FALSE,
   exclude_already_in_cart |-> FALSE, brand |-> "None",
   orders |-> {}, cart |-> {}, branded |-> {}]

RecoIdle ==
  /\ svc = "none" /\ skind = KIND_SIMILAR /\ srcExists = FALSE
  /\ vecHits = <<>> /\ textHits = <<>> /\ docsMissing = {}
  /\ svcStoredVec = FALSE /\ svcVecCached = FALSE /\ senv = CalmEnv
  /\ recoCache = [k \in BOOLEAN |-> NoEntry]
  /\ xs = XsIdle /\ xsellCache = XNoEntry
  /\ expiredSince = FALSE /\ last = NoCall

\* ---- idle values of the key and batch-job variables ----
KeyIdle == [pc |-> "off"]

JobIdle == [pc |-> "off"]

FpIdle == [pc |-> "off"]

SqIdle == [pc |-> "off"]

ToolIdle == keyq = KeyIdle /\ job = JobIdle /\ fp = FpIdle /\ sq = SqIdle

EmbInit ==
  EmbInitCommon /\ bpc = "off" /\ RagIdle /\ RecoIdle /\ ToolIdle

EmbNext ==
  /\ (\E p \in Requests : EmbStep(p)) \/ LockExpire \/ VecCacheExpire
  /\ UNCHANGED <<ragVars, recoVars, toolVars>>

SpecEmb == EmbInit /\ [][EmbNext]_vars

\* The runs in which a cache operation of the lock holder may raise.
EmbCacheErrNext ==
  \/ EmbNext
  \/ /\ \E p \in Requests : RecheckFail(p) \/ CacheSetFail(p)
     /\ UNCHANGED <<ragVars, recoVars, toolVars>>

SpecEmbCacheErr == EmbInit /\ [][EmbCacheErrNext]_vars

\* embedding_svc.py:116-149  the process of a lock holder dies between the
\* acquire and the finally clause: no statement of the coroutine runs any
\* more, the lock key stays until its TTL
Crash(p) ==
  /\ acquired[p]
  /\ epc[p] \in {"recheck", "load", "embed", "cache_set"}
  /\ epc' = [epc EXCEPT ![p] = "crashed"]
  /\ inFlight' = inFlight \ {p}
  /\ UNCHANGED <<vcache, storeVec, prodExists, lockKey, acquired, polls,
                 evec, eraised, embCalls, bpc, bforce, ehist>>

EmbCrashNext ==
  \/ EmbNext
  \/ /\ \E p \in Requests : Crash(p)
     /\ UNCHANGED <<ragVars, recoVars, toolVars>>

SpecEmbCrash == EmbInit /\ [][EmbCrashNext]_vars

\* The steps of the coroutine of request p.
LiveStep(p) == EmbStep(p) /\ UNCHANGED <<ragVars, recoVars, toolVars>>

\* The event loop resumes every coroutine of a living process whose await
\* has completed, and every redis, store and provider call returns or
\* raises; nothing is assumed about when a key expires.
SpecEmbCrashFair ==
  SpecEmbCrash /\ \A p \in Requests : WF_vars(LiveStep(p))

\* embedding_svc.py:112-114  the steps of a request that did not get the
\* lock: the polls of lock.wait and the cache read after it
WaiterStep(p) ==
  (Wait(p) \/ WaitGet(p)) /\ UNCHANGED <<ragVars, recoVars, toolVars>>

\* The event loop resumes a coroutine whose redis call or 0.1 s sleep has
\* completed; nothing is assumed about the lock holder, the other requests
\* or the expiry of keys.
SpecEmbFair == SpecEmb /\ \A p \in Requests : WF_vars(WaiterStep(p))

\* ------------------------------------------------------------------------
\* batch_get_or_create_embeddings for the same key (product_ids = [pid],
\* write_back_db = True, hydrate_cache = True as the vectorize route calls it)
\* ------------------------------------------------------------------------
Batch == 0

reqVars == <<epc, acquired, polls, evec, eraised, embCalls>>

\* embedding_svc.py:215-222  cache pass, skipped when force
BatchCachePass ==
  /\ bpc = "b_start"
  /\ \E f \in BOOLEAN :
       /\ bforce' = f
       /\ bpc' = IF f THEN "b_fetch"
                 ELSE IF vcache # Nil THEN "b_done" ELSE "b_scan"
  /\ UNCHANGED <<reqVars, vcache, storeVec, prodExists, lockKey, inFlight,
                 ehist>>

\* embedding_svc.py:229-256  store scan for vectors.<kind>.vector
BatchScan ==
  /\ bpc = "b_scan"
  /\ bpc' = IF storeVec # Nil THEN "b_hydrate" ELSE "b_fetch"
  /\ UNCHANGED <<reqVars, vcache, storeVec, prodExists, lockKey, inFlight,
                 bforce, ehist>>

\* embedding_svc.py:252-254  hydrate_cache: cache.set of the stored vector
BatchHydrate ==
  /\ bpc = "b_hydrate"
  /\ storeVec # Nil
  /\ vcache' = storeVec
  /\ bpc' = "b_done"
  /\ UNCHANGED <<reqVars, storeVec, prodExists, lockKey, inFlight, bforce,
                 ehist>>

\* embedding_svc.py:301-368  fetch the document, build the text and start
\* the provider call; no lock is taken
BatchFetch ==
  /\ bpc = "b_fetch"
  /\ IF ~prodExists \/ (~bforce /\ storeVec # Nil)
       THEN /\ bpc' = "b_done"
            /\ UNCHANGED inFlight
       ELSE /\ bpc' = "b_embed"
            /\ inFlight' = inFlight \cup {Batch}
  /\ UNCHANGED <<reqVars, vcache, storeVec, prodExists, lockKey, bforce,
                 ehist>>

\* embedding_svc.py:368-377  the provider answers; cache.set of the vector
BatchEmbedOk ==
  /\ bpc = "b_embed"
  /\ inFlight' = inFlight \ {Batch}
  /\ vcache' = TrueVec
  /\ bpc' = "b_persist"
  /\ UNCHANGED <<reqVars, storeVec, prodExists, lockKey, bforce, ehist>>

\* embedding_svc.py:387-390  the provider raises: the chunk is recorded
BatchEmbedFail ==
  /\ bpc = "b_embed"
  /\ inFlight' = inFlight \ {Batch}
  /\ bpc' = "b_done"
  /\ ehist' = [ehist EXCEPT !.provFailed = TRUE]
  /\ UNCHANGED <<reqVars, vcache, storeVec, prodExists, lockKey, bforce>>

\* embedding_svc.py:378-386  write_back_db: prod_repo.set_vector
BatchPersist ==
  /\ bpc = "b_persist"
  /\ storeVec' = TrueVec
  /\ bpc' = "b_done"
  /\ UNCHANGED <<reqVars, vcache, prodExists, lockKey, inFlight, bforce,
                 ehist>>

BatchStep ==
  \/ BatchCachePass \/ BatchScan \/ BatchHydrate \/ BatchFetch
  \/ BatchEmbedOk \/ BatchEmbedFail \/ BatchPersist

EmbBatchInit ==
  EmbInitCommon /\ bpc = "b_start" /\ RagIdle /\ RecoIdle /\ ToolIdle

EmbBatchNext == EmbNext \/ (BatchStep /\ UNCHANGED <<ragVars, recoVars, toolVars>>)

\* Requests and one batch job working on the same (product, kind) key.
SpecEmbBatch == EmbBatchInit /\ [][EmbBatchNext]_vars

\* ------------------------------------------------------------------------
\* rag_answer applied to every bounded input
\* ------------------------------------------------------------------------
EmbIdle ==
  /\ epc = [p \in Requests |-> "done"]
  /\ vcache = Nil /\ storeVec = Nil /\ prodExists = TRUE /\ lockKey = Nil
  /\ acquired = [p \in Requests |-> FALSE]
  /\ polls = [p \in Requests |-> 0]
  /\ evec = [p \in Requests |-> Nil]
  /\ eraised = [p \in Requests |-> FALSE]
  /\ embCalls = [p \in Requests |-> 0]
  /\ inFlight = {} /\ bpc = "off" /\ bforce = FALSE
  /\ ehist = [uncached0 |-> TRUE, cached0 |-> FALSE, stolen |-> FALSE,
              lockExpired |-> FALSE,
              provFailed |-> FALSE, cacheExpired |-> FALSE]

RagInit ==
  /\ EmbIdle /\ RecoIdle /\ ToolIdle
  /\ rpc = "ready"
  /\ rout = RagIdleOut
  /\ \E cands \in AllCandLists :
       \E kind \in RagKinds, hydrateErr \in BOOLEAN,
          present \in PresentSets(Len(cands)),
          answers \in AnswerSeqs(Len(cands)), ir \in BOOLEAN :
         rin = [kind |-> kind, candidates |-> cands,
                hydrateErr |-> hydrateErr, present |-> present,
                answers |-> answers, include_rationale |-> ir]

\* rag_svc.py:176-296  one call of rag_answer
RagCall ==
  /\ rpc = "ready"
  /\ rout' = RagAnswer(rin.kind, rin.candidates, rin.hydrateErr, rin.present,
                       rin.answers, rin.include_rationale)
  /\ rpc' = "done"
  /\ UNCHANGED <<rin, embVars, recoVars, toolVars>>

RagNext == RagCall

SpecRag == RagInit /\ [][RagNext]_vars

\* ------------------------------------------------------------------------
\* recommend (pipeline_svc.py), calls served one after the other
\* ------------------------------------------------------------------------
FINAL_K == 10
RETRIEVAL_K == 30

\* A slice that keeps the whole list.
TakeAll(items, k) == items

\* pipeline_svc.py:179, xsell_svc.py:329  items[:k]
Take(items, k) == SubSeq(items, 1, IF Len(items) < k THEN Len(items) ELSE k)

\* models/product.py:30-34  RecoResult
RecoResult(items, count) == [items |-> items, count |-> count]

\* A cache-hit result that reports the configured size instead of the length.
CacheHitResultFixedCount(cached) == RecoResult(cached, FINAL_K)

\* pipeline_svc.py:103
CacheHitResult(cached) == RecoResult(cached, Len(cached))

\* pipeline_svc.py:82-96  build_cache_key: every other part of the key is
\* fixed by the run, the rerank flag tells the two keys apart
BuildCacheKey(with_llm) == with_llm

\* A lookup that finds no entry under any key.
RecoCacheGetNothing(cache, key) == NoEntry

\* reco_product_cache_repo.py:37-47  get: None for an absent key, the stored
\* list (an empty one included) otherwise
RecoCacheGet(cache, key) == cache[key]

\* pipeline_svc.py:101, 172  `if cached := await reco_cache.get(key)`: None
\* and the empty list are both false
Truthy(entry) == entry.present /\ entry.items # <<>>

\* reco_product_cache_repo.py:49-55  set
RecoCacheSet(cache, key, items, reranked) ==
  [cache EXCEPT ![key] =
     [present |-> TRUE, items |-> items, reranked |-> reranked]]

\* embedding_svc.py:69-152  get_or_create_embedding with no other requester:
\* cache, then stored vector (backfilling the cache), then the provider
\* under the lock
EmbeddingAlone(cached, stored, provOk) ==
  IF cached \/ stored
    THEN [vec |-> TRUE, calls |-> 0, cached |-> TRUE]
  ELSE IF provOk
    THEN [vec |-> TRUE, calls |-> 1, cached |-> TRUE]
  ELSE [vec |-> FALSE, calls |-> 1, cached |-> FALSE]

\* A retrieval that never falls back once a vector was given.
RetrieveCandidatesNoFallback(vec, text_query, vecResult, textResult, k) ==
  LET vitems == IF vec /\ ~vecResult.err THEN Take(vecResult.hits, k) ELSE <<>>
      useText == ~vec /\ text_query
      titems == IF useText /\ ~textResult.err
                  THEN Take(textResult.hits, k) ELSE <<>>
  IN [items |-> IF vitems # <<>> THEN vitems ELSE titems,
      vecSearches |-> IF vec THEN 1 ELSE 0,
      textSearches |-> IF useText THEN 1 ELSE 0]

\* A retrieval whose text search only runs after a vector search.
RetrieveCandidatesTextAfterVector(vec, text_query, vecResult, textResult, k) ==
  LET vitems == IF vec /\ ~vecResult.err THEN Take(vecResult.hits, k) ELSE <<>>
      useText == vec /\ vitems = <<>> /\ text_query
      titems == IF useText /\ ~textResult.err
                  THEN Take(textResult.hits, k) ELSE <<>>
  IN [items |-> IF vitems # <<>> THEN vitems ELSE titems,
      vecSearches |-> IF vec THEN 1 ELSE 0,
      textSearches |-> IF useText THEN 1 ELSE 0]

\* A retrieval that always runs the text search and appends its results.
RetrieveCandidatesMerged(vec, text_query, vecResult, textResult, k) ==
  LET vitems == IF vec /\ ~vecResult.err THEN Take(vecResult.hits, k) ELSE <<>>
      useText == text_query
      titems == IF useText /\ ~textResult.err
                  THEN Take(textResult.hits, k) ELSE <<>>
  IN [items |-> vitems \o titems,
      vecSearches |-> IF vec THEN 1 ELSE 0,
      textSearches |-> IF useText THEN 1 ELSE 0]

\* retrieval.py:11-92  retrieve_candidates.  vec: a vector was given;
\* text_query: the fallback text is non-empty
RetrieveCandidates(vec, text_query, vecResult, textResult, k) ==
  LET vitems == IF vec /\ ~vecResult.err THEN Take(vecResult.hits, k) ELSE <<>>
      useText == vitems = <<>> /\ text_query
      titems == IF useText /\ ~textResult.err
                  THEN Take(textResult.hits, k) ELSE <<>>
  IN [items |-> IF vitems # <<>> THEN vitems ELSE titems,
      vecSearches |-> IF vec THEN 1 ELSE 0,
      textSearches |-> IF useText THEN 1 ELSE 0]

\* What the completion provider and the document fetch do during one call.
RagOutcomes == {"ok", "zero", "error", "invalid", "late", "hydrate_error"}

\* The completion scores the candidates it is shown, in their order.
SvcAnswers(tag, ids) ==
  LET n == Len(ids)
      pattern == Content(TRUE, TRUE,
                         [i \in 1..n |-> RankItem(ids[i], LlmPattern(i), "r")])
      zero == Content(TRUE, TRUE, [i \in 1..n |-> RankItem(ids[i], 0, "r")])
  IN IF tag = "zero" THEN AnswersOf(0, zero, n)
     ELSE IF tag = "error" THEN AnswersOf(0, ProviderError, n)
     ELSE IF tag = "invalid" THEN AnswersOf(max_retries + 1, pattern, n)
     ELSE IF tag = "late" THEN AnswersOf(max_retries, pattern, n)
     ELSE AnswersOf(0, pattern, n)

\* db/redis.py:9-44  the runs without a usable cache store
CacheDownEnvs == { [CalmEnv EXCEPT !.cache = c] : c \in {"none", "raising"} }

\* What the providers and the searches do during a run: every outcome of
\* the rerank with nothing else failing, and the embedding provider, the
\* vector search or both searches failing.
RecoEnvs ==
  { [CalmEnv EXCEPT !.rag = r] : r \in RagOutcomes }
  \cup { [CalmEnv EXCEPT !.embOk = FALSE],
         [CalmEnv EXCEPT !.vecErr = TRUE],
         [CalmEnv EXCEPT !.vecErr = TRUE, !.textErr = TRUE] }
  \cup CacheDownEnvs

\* Candidate ids whose document the store returns.
Present(items) ==
  { items[i].product_id : i \in DOMAIN items } \ docsMissing

\* pipeline_svc.py:38-192  recommend
Recommend(use_llm, use_text_fallback, include_rationale, env) ==
  LET key == BuildCacheKey(use_llm)
      cached == RecoCacheGet(recoCache, key)
      call == [NoCall EXCEPT
                 !.op = "recommend", !.use_llm = use_llm,
                 !.use_text_fallback = use_text_fallback,
                 !.include_rationale = include_rationale,
                 !.repeat = /\ last.op = "recommend"
                            /\ ~expiredSince
                            /\ last.use_llm = use_llm
                            /\ last.use_text_fallback = use_text_fallback
                            /\ last.include_rationale = include_rationale]
      Returned(c, res) ==
        [c EXCEPT !.items = res.items, !.count = res.count,
                  !.sameAsPrev = (res.items = last.items)]
  IN
  /\ svc = "reco"
  /\ expiredSince' = FALSE
  /\ UNCHANGED <<svc, skind, srcExists, vecHits, textHits, docsMissing,
                 svcStoredVec, senv, xs, xsellCache, embVars, ragVars,
                 toolVars>>
  /\ IF env.cache # "up" THEN
       \* pipeline_svc.py:101  reco_cache.get is awaited outside any try:
       \* the AttributeError of a None client or the error of the client
       \* leaves recommend
       /\ last' = [call EXCEPT !.path = "raised"]
       /\ UNCHANGED <<recoCache, svcVecCached>>
     ELSE IF Truthy(cached) THEN
       /\ last' = Returned([call EXCEPT !.path = "cache_hit",
                                        !.reranked = cached.reranked],
                           CacheHitResult(cached.items))
       /\ UNCHANGED <<recoCache, svcVecCached>>
     ELSE IF ~srcExists THEN
       /\ recoCache' = RecoCacheSet(recoCache, key, <<>>, FALSE)
       /\ last' = Returned([call EXCEPT !.path = "no_source",
                                        !.srcLookups = 1],
                           RecoResult(<<>>, 0))
       /\ UNCHANGED svcVecCached
     ELSE
       LET emb == EmbeddingAlone(svcVecCached, svcStoredVec, env.embOk)
           ret == RetrieveCandidates(
                    emb.vec, use_text_fallback,
                    [err |-> env.vecErr, hits |-> vecHits],
                    [err |-> env.textErr, hits |-> textHits], RETRIEVAL_K)
           doRerank == ret.items # <<>> /\ use_llm
           rag == IF doRerank
                    THEN RagAnswer(skind, ret.items,
                                   env.rag = "hydrate_error",
                                   Present(ret.items),
                                   SvcAnswers(env.rag,
                                              Shown(ret.items,
                                                    Present(ret.items))),
                                   include_rationale)
                    ELSE [raised |-> FALSE, items |-> ret.items,
                          applied |-> FALSE, calls |-> 0, used |-> 0,
                          messages |-> <<>>]
           llm_applied == doRerank /\ ~rag.raised
           non_llm_cached == RecoCacheGet(recoCache, BuildCacheKey(FALSE))
           fresh == [call EXCEPT
                       !.srcLookups = 1, !.embCalls = emb.calls,
                       !.llmCalls = rag.calls,
                       !.vecSearches = ret.vecSearches,
                       !.textSearches = ret.textSearches,
                       !.hadVec = emb.vec, !.vecErr = env.vecErr,
                       !.textErr = env.textErr, !.retrieved = ret.items]
       IN
       /\ svcVecCached' = emb.cached
       /\ IF doRerank /\ rag.raised /\ Truthy(non_llm_cached) THEN
            /\ last' = Returned([fresh EXCEPT
                                   !.path = "fallback_cache",
                                   !.reranked = non_llm_cached.reranked],
                                RecoResult(non_llm_cached.items,
                                           Len(non_llm_cached.items)))
            /\ UNCHANGED recoCache
          ELSE
            LET items == Take(IF llm_applied THEN rag.items ELSE ret.items,
                              FINAL_K)
                reranked == llm_applied /\ rag.applied
                c1 == RecoCacheSet(recoCache, BuildCacheKey(llm_applied),
                                   items, reranked)
            IN
            /\ recoCache' =
                 IF use_llm /\ ~llm_applied
                   THEN RecoCacheSet(c1, BuildCacheKey(FALSE), items, FALSE)
                   ELSE c1
            /\ last' = Returned([fresh EXCEPT
                                   !.path = "fresh",
                                   !.llm_applied = llm_applied,
                                   !.reranked = reranked],
                                RecoResult(items, Len(items)))

RecommendCall ==
  \E use_llm \in BOOLEAN, use_text_fallback \in BOOLEAN,
     include_rationale \in BOOLEAN :
    Recommend(use_llm, use_text_fallback, include_rationale, senv)

\* The TTL of a result key (settings.product_cache_ttl) runs out.
RecoCacheExpire ==
  /\ svc = "reco"
  /\ \E key \in BOOLEAN :
       /\ recoCache[key].present
       /\ recoCache' = [recoCache EXCEPT ![key] = NoEntry]
  /\ expiredSince' = TRUE
  /\ UNCHANGED <<svc, skind, srcExists, vecHits, textHits, docsMissing,
                 svcStoredVec, svcVecCached, senv, xs, xsellCache, last,
                 embVars, ragVars, toolVars>>

\* The TTL of the cached vector (settings.vector_cache_ttl) runs out.
SvcVecCacheExpire ==
  /\ svc = "reco"
  /\ svcVecCached
  /\ svcVecCached' = FALSE
  /\ expiredSince' = TRUE
  /\ UNCHANGED <<svc, skind, srcExists, vecHits, textHits, docsMissing,
                 svcStoredVec, senv, recoCache, xs, xsellCache, last,
                 embVars, ragVars, toolVars>>

\* Ranked results of the store for the product: none, three hits, three hits
\* with equal scores, more hits than FINAL_K.
LongHits ==
  [i \in 1..(FINAL_K + 1) |->
     RecoItem(i, IF i <= 4 THEN Tenths(9) ELSE IF i <= 8 THEN Tenths(7)
                 ELSE Tenths(5), "None")]

ScoreHits ==
  <<RecoItem(1, Tenths(9), "None"), RecoItem(2, Tenths(7), "None"),
    RecoItem(3, Tenths(2), "None")>>

TieHits ==
  <<RecoItem(1, Tenths(9), "None"), RecoItem(2, Tenths(9), "None"),
    RecoItem(3, Tenths(9), "None")>>

TextHits == <<RecoItem(1, Tenths(7), "None"), RecoItem(2, Tenths(5), "None")>>

Store(exists, vhits, thits, missing, stored) ==
  [srcExists |-> exists, vecHits |-> vhits, textHits |-> thits,
   docsMissing |-> missing, storedVec |-> stored]

RecoStores ==
  { Store(TRUE, ScoreHits, TextHits, {}, FALSE),
    Store(TRUE, ScoreHits, <<>>, {1}, TRUE),
    Store(TRUE, TieHits, TextHits, {2}, FALSE),
    Store(TRUE, LongHits, <<>>, {}, FALSE),
    Store(TRUE, <<>>, TextHits, {}, FALSE),
    Store(TRUE, <<>>, <<>>, {}, TRUE) }

RecoInit ==
  /\ EmbIdle /\ RagIdle /\ ToolIdle
  /\ svc = "reco"
  /\ skind \in {KIND_SIMILAR, KIND_COMPLEMENTARY}
  /\ \E st \in RecoStores \cup {Store(FALSE, <<>>, <<>>, {}, FALSE)} :
       /\ srcExists = st.srcExists
       /\ vecHits = st.vecHits
       /\ textHits = st.textHits
       /\ docsMissing = st.docsMissing
       /\ svcStoredVec = st.storedVec
  /\ senv \in RecoEnvs
  /\ ~srcExists => senv.rag = "ok" /\ senv.embOk /\ ~senv.vecErr
  /\ skind = KIND_COMPLEMENTARY => vecHits \in {<<>>, ScoreHits}
  /\ svcVecCached = FALSE
  /\ recoCache = [k \in BOOLEAN |-> NoEntry]
  /\ xs = XsIdle /\ xsellCache = XNoEntry
  /\ expiredSince = FALSE
  /\ last = NoCall

RecoNext == RecommendCall \/ RecoCacheExpire \/ SvcVecCacheExpire

SpecReco == RecoInit /\ [][RecoNext]_vars
\* ------------------------------------------------------------------------
\* get_xsell_products_cached_for_product (xsell_svc.py), calls served one
\* after the other with the arguments of the run
\* ------------------------------------------------------------------------
\* The product the cross-sell is asked for.
XPid == 10

\* The purchase events, grouped by their order key.
Order(ok, user, prods) == [ok |-> ok, user |-> user, prods |-> prods]

\* A mining step without the $match on user_id.
MatchingAnyUser(orders, product_id, user_id) ==
  { o \in orders : product_id \in o.prods }

\* xsell_svc.py:120-129  orders (of the user when user_id is given) that
\* contain the product
Matching(orders, product_id, user_id) ==
  { o \in orders :
      (user_id # "None" => o.user = user_id) /\ product_id \in o.prods }

\* xsell_svc.py:130-132  co_count of a co-purchased product
CoCount(orders, product_id, user_id, c) ==
  Cardinality({ o \in Matching(orders, product_id, user_id) : c \in o.prods })

\* xsell_svc.py:115-143  _mine_xsell_candidates: $sort on co_count leaves the
\* order of equal counts to the store, so every order of them is a result
MineResults(orders, product_id, user_id, prelimit) ==
  LET co == UNION { o.prods \ {product_id} :
                      o \in Matching(orders, product_id, user_id) }
      n == Cardinality(co)
      cnt(c) == CoCount(orders, product_id, user_id, c)
      ranked == { f \in [1..n -> co] :
                    /\ \A i, j \in 1..n : i # j => f[i] # f[j]
                    /\ \A i, j \in 1..n : i < j => cnt(f[i]) >= cnt(f[j]) }
  IN { Take([i \in 1..n |-> [product_id |-> f[i], count |-> cnt(f[i])]],
            prelimit) : f \in ranked }

\* xsell_svc.py:18-35  _get_user_purchased_product_ids
PurchasedIds(orders, user_id) ==
  UNION { o.prods : o \in { q \in orders : q.user = user_id } }

\* xsell_svc.py:240-248  the exclusion set built without the except
\* branches of the two lookups
ExclusionIdsNoFailure(a, histErr) ==
  (IF a.exclude_already_purchased
     THEN PurchasedIds(a.orders, a.user_id) ELSE {})
  \cup (IF a.exclude_already_in_cart THEN a.cart ELSE {})

\* xsell_svc.py:240-248, 24-35, 43-53  the exclusion set: a lookup that
\* raises is logged and counts as an empty list
ExclusionIds(a, histErr) ==
  IF histErr THEN {} ELSE ExclusionIdsNoFailure(a, histErr)

RECURSIVE MaxCountFrom(_, _, _)
MaxCountFrom(mined, i, m) ==
  IF i > Len(mined) THEN m
  ELSE MaxCountFrom(mined, i + 1,
                    IF mined[i].count > m THEN mined[i].count ELSE m)

\* xsell_svc.py:298-303  counts normalised by the largest count
Normalize(mined, product_id) ==
  LET max_count == MaxCountFrom(mined, 1, 0)
      kept == SelectSeq(mined, LAMBDA m : m.product_id # product_id)
  IN [i \in DOMAIN kept |->
        RecoItem(kept[i].product_id, (kept[i].count * Scale) \div max_count,
                 "None")]

\* xsell_svc.py:194-200  a legacy JSON list adapted to a RecoResult
LegacyResult(items) == RecoResult(items, Len(items))

\* xsell_svc.py:220, 233, 259, 290, 341  redis.set(result.model_dump_json())
XsellCacheSet(result, reranked) ==
  [fmt |-> "result", items |-> result.items, count |-> result.count,
   reranked |-> reranked]

\* xsell_svc.py:145-348  get_xsell_products_cached_for_product
XsellCall ==
  LET a == xs
      call == [NoCall EXCEPT
                 !.op = "xsell", !.use_llm = a.use_llm_rerank,
                 !.include_rationale = a.include_rationale,
                 !.repeat = last.op = "xsell" /\ ~expiredSince]
      Returned(c, res) ==
        [c EXCEPT !.items = res.items, !.count = res.count,
                  !.sameAsPrev = (res.items = last.items)]
      \* xsell_svc.py:187-205  a failing redis.get is logged and the call
      \* goes on as after a miss
      entry == IF senv.cache = "up" THEN xsellCache ELSE XNoEntry
      \* every redis.set is inside a try whose except only logs
      Written(result, reranked) ==
        IF senv.cache = "up" THEN XsellCacheSet(result, reranked)
        ELSE xsellCache
      Empty(c, path) ==
        /\ xsellCache' = Written(RecoResult(<<>>, 0), FALSE)
        /\ last' = Returned([c EXCEPT !.path = path], RecoResult(<<>>, 0))
  IN
  /\ svc = "xsell"
  /\ expiredSince' = FALSE
  /\ UNCHANGED <<svc, skind, srcExists, vecHits, textHits, docsMissing,
                 svcStoredVec, svcVecCached, senv, recoCache, xs,
                 embVars, ragVars, toolVars>>
  /\ IF entry.fmt = "result" THEN
       /\ last' = Returned([call EXCEPT !.path = "cache_hit",
                                        !.reranked = entry.reranked],
                           RecoResult(entry.items, entry.count))
       /\ UNCHANGED xsellCache
     ELSE IF entry.fmt = "legacy" THEN
       /\ last' = Returned([call EXCEPT !.path = "legacy_hit"],
                           LegacyResult(entry.items))
       /\ UNCHANGED xsellCache
     ELSE IF ~srcExists THEN
       Empty([call EXCEPT !.srcLookups = 1], "no_source")
     ELSE
       \E mined0 \in MineResults(a.orders, XPid, a.user_id,
                                 IF a.limit * 4 > a.limit
                                   THEN a.limit * 4 ELSE a.limit) :
         LET c1 == [call EXCEPT !.srcLookups = 1]
             excluding == /\ a.user_id # "None"
                          /\ (a.exclude_already_purchased
                              \/ a.exclude_already_in_cart)
             exclusion_ids == ExclusionIds(a, senv.histErr)
             mined1 == IF excluding
                         THEN SelectSeq(mined0,
                                LAMBDA m : /\ m.product_id \notin exclusion_ids
                                           /\ m.product_id # XPid)
                         ELSE mined0
             filtering == a.brand # "None"
             allowed == a.branded \ docsMissing
             mined2 == IF filtering
                         THEN SelectSeq(mined1,
                                LAMBDA m : m.product_id \in allowed)
                         ELSE mined1
         IN
         IF mined0 = <<>> THEN Empty(c1, "no_candidates")
         ELSE IF excluding /\ mined1 = <<>> THEN Empty(c1, "excluded_all")
         ELSE IF filtering /\ mined2 = <<>> THEN Empty(c1, "filtered_all")
         ELSE
           LET candidates == Normalize(mined2, XPid)
               rag == IF a.use_llm_rerank
                        THEN RagAnswer(KIND_XSELL, candidates,
                                       senv.rag = "hydrate_error",
                                       Present(candidates),
                                       SvcAnswers(senv.rag,
                                                  Shown(candidates,
                                                        Present(candidates))),
                                       a.include_rationale)
                        ELSE [raised |-> FALSE, items |-> candidates,
                              applied |-> FALSE, calls |-> 0, used |-> 0,
                          messages |-> <<>>]
               ranked == IF rag.raised THEN candidates ELSE rag.items
               top == Take(ranked, a.limit)
               items == [i \in DOMAIN top |->
                           RecoItem(top[i].product_id, top[i].score,
                                    IF a.include_rationale
                                      THEN top[i].rationale ELSE "None")]
               result == RecoResult(items, Len(items))
               reranked == rag.applied /\ ~rag.raised
           IN
           /\ xsellCache' = Written(result, reranked)
           /\ last' = Returned([c1 EXCEPT !.path = "fresh",
                                          !.llmCalls = rag.calls,
                                          !.retrieved = candidates,
                                          !.llm_applied = reranked,
                                          !.reranked = reranked],
                               result)

\* xsell_svc.py:24-35, 43-53  a run in which the events collection raises on
\* distinct (a result over the document size limit, a timeout)
HistDownEnv == [CalmEnv EXCEPT !.histErr = TRUE]

\* The TTL of the cross-sell key (settings.x_sell_cache_ttl) runs out.
XsellCacheExpire ==
  /\ svc = "xsell"
  /\ xsellCache.fmt # "none"
  /\ xsellCache' = XNoEntry
  /\ expiredSince' = TRUE
  /\ UNCHANGED <<svc, skind, srcExists, vecHits, textHits, docsMissing,
                 svcStoredVec, svcVecCached, senv, recoCache, xs, last,
                 embVars, ragVars, toolVars>>

\* Purchases: user u bought the product with 1 and 2, user w bought it
\* twice, with 2 and with 3; one order does not hold the product.
SomeOrders ==
  { Order(1, "u", {XPid, 1, 2}), Order(2, "w", {XPid, 2}),
    Order(3, "w", {XPid, 3}), Order(4, "w", {1, 3}) }

\* Arguments of a run.  The exclusion flags only act with a user_id.
XsellArgs ==
  { a \in [user_id : {"None", "u"}, limit : {1, FINAL_K},
           use_llm_rerank : BOOLEAN, include_rationale : BOOLEAN,
           exclude_already_purchased : BOOLEAN,
           exclude_already_in_cart : BOOLEAN,
           brand : {"None", "b"},
           orders : {{}, SomeOrders}, cart : {{1, 3}}, branded : {{2, 3}}] :
      a.user_id = "None" =>
        (a.exclude_already_purchased /\ a.exclude_already_in_cart) }

\* Entries an older version left under the key.
LegacyEntries ==
  { [fmt |-> "legacy", items |-> <<>>, count |-> 0, reranked |-> FALSE],
    [fmt |-> "legacy",
     items |-> <<RecoItem(2, Scale, "None"), RecoItem(1, Tenths(5), "None")>>,
     count |-> 0, reranked |-> FALSE] }

XsellInit ==
  /\ EmbIdle /\ RagIdle /\ ToolIdle
  /\ svc = "xsell"
  /\ skind = KIND_XSELL
  /\ srcExists \in BOOLEAN
  /\ vecHits = <<>> /\ textHits = <<>>
  /\ docsMissing \in {{}, {2}}
  /\ svcStoredVec = FALSE /\ svcVecCached = FALSE
  /\ senv \in { [CalmEnv EXCEPT !.rag = r] : r \in RagOutcomes }
               \cup CacheDownEnvs \cup {HistDownEnv}
  /\ recoCache = [k \in BOOLEAN |-> NoEntry]
  /\ xs \in XsellArgs
  /\ senv.histErr => (xs.user_id # "None" /\ xs.orders # {})
  /\ ~xs.use_llm_rerank => senv.rag = "ok"
  /\ ~srcExists => (docsMissing = {} /\ senv.rag = "ok" /\ xs.orders = {})
  /\ xsellCache \in {XNoEntry} \cup LegacyEntries
  /\ senv.cache = "none" => xsellCache = XNoEntry
  /\ expiredSince = FALSE
  /\ last = NoCall

XsellNext == XsellCall \/ XsellCacheExpire

SpecXsell == XsellInit /\ [][XsellNext]_vars

\* ------------------------------------------------------------------------
\* The result-cache key of recommend (pipeline_svc.py build_cache_key,
\* reco_product_cache_repo.py _h and key), built for two requests
\* ------------------------------------------------------------------------
\* Number of values the shortened digest can take (16^10 in the source).
DigestSpace == 16

\* must_filters: None, or a dict whose compound.filter lists clauses (the
\* empty dict has none).
NoFilters == [given |-> FALSE, clauses |-> <<>>]

Filters(clauses) == [given |-> TRUE, clauses |-> clauses]

MustFilters ==
  {NoFilters, Filters(<<>>), Filters(<<1>>), Filters(<<2>>),
   Filters(<<1, 2>>), Filters(<<2, 1>>)}

\* pipeline_svc.py:84  `must_filters or {}`: None and the empty dict both
\* give the empty dict
OrEmpty(must_filters) == must_filters.clauses

KindCode(kind) == IF kind = KIND_SIMILAR THEN 1 ELSE 2

\* reco_product_cache_repo.py:11  json.dumps(..., sort_keys=True) of
\* {"f": cache_filters, "k": limit, "m": model}, as the sequence of its
\* values in key order (_final_k, _kind, _must, _rerank, _retrieval_k)
JsonDumps(filt, model, limit) ==
  <<filt.final_k, KindCode(filt.kind), Len(filt.must)>> \o filt.must
    \o <<IF filt.rerank THEN 1 ELSE 0, filt.retrieval_k, limit, model>>

\* reco_product_cache_repo.py:12  hashlib.sha1(s).hexdigest()[:10]: a fixed
\* function of the text into DigestSpace values
RECURSIVE Sha1Prefix(_, _, _)
Sha1Prefix(s, i, h) ==
  IF i > Len(s) THEN h
  ELSE Sha1Prefix(s, i + 1, (h * 31 + s[i] + 7) % DigestSpace)

\* reco_product_cache_repo.py:6-12  _h
H(filters, model, limit) == Sha1Prefix(JsonDumps(filters, model, limit), 1, 0)

\* reco_product_cache_repo.py:30-35  key
RecoProductsCacheRepoKey(prefix, version, product_id, limit, filt, model) ==
  <<version, prefix, product_id, H(filt, model, limit)>>

\* pipeline_svc.py:80-96  build_cache_key of a request q, with every part
\* of the key
FullCacheKey(q, with_llm) ==
  LET cache_filters == [must |-> OrEmpty(q.must), rerank |-> with_llm,
                        retrieval_k |-> RETRIEVAL_K, final_k |-> FINAL_K,
                        kind |-> q.kind]
  IN RecoProductsCacheRepoKey(q.kind, q.version, q.product_id, FINAL_K,
                              cache_filters, q.model)

\* Requests: api version, kind, product, filters, embedding model of the
\* settings, rerank mode.
Queries ==
  [version : {"v1", "v2"}, kind : {KIND_SIMILAR, KIND_COMPLEMENTARY},
   product_id : {1, 2}, must : MustFilters, model : {1, 2},
   use_llm : BOOLEAN]

KeyInit ==
  /\ EmbIdle /\ RagIdle /\ RecoIdle /\ job = JobIdle /\ fp = FpIdle
  /\ sq = SqIdle
  /\ \E a \in Queries, b \in Queries : keyq = [pc |-> "ready", a |-> a, b |-> b]

\* pipeline_svc.py:99  reco_cache_key = build_cache_key(with_llm=use_llm),
\* for both requests
KeyBuild ==
  /\ keyq.pc = "ready"
  /\ keyq' = [pc |-> "done", a |-> keyq.a, b |-> keyq.b,
              ka |-> FullCacheKey(keyq.a, keyq.a.use_llm),
              kb |-> FullCacheKey(keyq.b, keyq.b.use_llm)]
  /\ UNCHANGED <<embVars, ragVars, recoVars, job, fp, sq>>

KeyNext == KeyBuild

SpecKey == KeyInit /\ [][KeyNext]_vars

\* ------------------------------------------------------------------------
\* batch_get_or_create_embeddings (embedding_svc.py:154-406), one job over
\* several products, one step per provider chunk
\* ------------------------------------------------------------------------
\* Number of products a job can be asked for.
MaxIds == 4

\* The openai_batch_size and scan_batch_size arguments of the jobs.
OpenaiBatchSize == 2
ScanBatchSize == 3

AllIds == 1..MaxIds

\* embedding_svc.py:197  list(dict.fromkeys(product_ids))
RECURSIVE UniqueFrom(_, _, _)
UniqueFrom(ids, i, acc) ==
  IF i > Len(ids) THEN acc
  ELSE UniqueFrom(ids, i + 1,
                  IF \E j \in DOMAIN acc : acc[j] = ids[i]
                    THEN acc ELSE Append(acc, ids[i]))

\* A job that walks product_ids as given, repeated ids included.
UniqueIdsKeepsAll(ids) == ids

UniqueIds(ids) == UniqueFrom(ids, 1, <<>>)

\* embedding_svc.py:286-293  _chunks: consecutive slices of n elements
Chunks(seq, n) ==
  [c \in 1..((Len(seq) + n - 1) \div n) |->
     SubSeq(seq, (c - 1) * n + 1,
            IF c * n < Len(seq) THEN c * n ELSE Len(seq))]

Range(seq) == { seq[i] : i \in DOMAIN seq }

RECURSIVE ConcatAll(_, _)
ConcatAll(seqs, i) ==
  IF i > Len(seqs) THEN <<>> ELSE seqs[i] \o ConcatAll(seqs, i + 1)

\* A cache pass that reads the cache whatever `force` says.
CachePassIgnoringForce(unique_ids, force, cached) ==
  [to_check_db |-> SelectSeq(unique_ids, LAMBDA pid : pid \notin cached),
   cache_hits |-> Cardinality(Range(unique_ids) \cap cached),
   cacheReads |-> Len(unique_ids)]

\* embedding_svc.py:213-222  step 1, the cache lookups
CachePass(unique_ids, force, cached) ==
  IF force
    THEN [to_check_db |-> unique_ids, cache_hits |-> 0, cacheReads |-> 0]
    ELSE [to_check_db |-> SelectSeq(unique_ids,
                                    LAMBDA pid : pid \notin cached),
          cache_hits |-> Cardinality(Range(unique_ids) \cap cached),
          cacheReads |-> Len(unique_ids)]

\* embedding_svc.py:228-263  step 2, the scan of the stored vectors
StoreScan(to_check_db, force, hydrate_cache, stored) ==
  IF to_check_db # <<>> /\ ~force
    THEN [to_embed |-> SelectSeq(to_check_db, LAMBDA pid : pid \notin stored),
          db_hits |-> Cardinality(Range(to_check_db) \cap stored),
          hydrated |-> IF hydrate_cache
                         THEN Range(to_check_db) \cap stored ELSE {},
          vecLookups |-> Len(Chunks(to_check_db, ScanBatchSize))]
    ELSE [to_embed |-> to_check_db, db_hits |-> 0, hydrated |-> {},
          vecLookups |-> 0]

\* embedding_svc.py:301-347  step 3 up to the provider call: per scan batch
\* the documents are fetched, per provider chunk the products whose vector
\* appeared meanwhile (not with force) and those without text are dropped
Prepare(to_embed, force, exists, textless, storedNow) ==
  LET batches == Chunks(to_embed, ScanBatchSize)
      present(b) == SelectSeq(batches[b], LAMBDA pid : pid \in exists)
      guarded(pid) == ~force /\ pid \in storedNow
      real(c) == SelectSeq(c, LAMBDA pid : ~guarded(pid)
                                           /\ pid \notin textless)
      perBatch(b) ==
        LET cs == Chunks(present(b), OpenaiBatchSize)
        IN SelectSeq([i \in DOMAIN cs |-> real(cs[i])],
                     LAMBDA c : c # <<>>)
      shown == { pid \in Range(to_embed) : pid \in exists }
  IN [chunks |-> ConcatAll([b \in DOMAIN batches |-> perBatch(b)], 1),
      missing_products |->
        SelectSeq(to_embed, LAMBDA pid : pid \notin exists),
      db_hits |-> Cardinality({ pid \in shown : guarded(pid) }),
      guardReads |-> IF force THEN 0 ELSE Cardinality(shown)]

\* What the provider, the cache and the store do with one chunk.
\* cache_raise: cache.set raises for the last product of the chunk.
ChunkOutcomes == {"ok", "raise", "mismatch", "store_raise", "cache_raise"}

\* A chunk without its last product.
Front(c) == SubSeq(c, 1, Len(c) - 1)

\* A job that stops at the first chunk the provider fails.
AfterChunkAborting(j, outcome) ==
  LET c == j.chunks[j.k]
      ids == Range(c)
      err(tag) == [tag |-> tag, chunk |-> j.k]
      base == [j EXCEPT !.k = @ + 1,
                        !.outcomes = Append(@, outcome),
                        !.submitted = @ \cup ids,
                        !.pc = IF j.k = Len(j.chunks) THEN "done" ELSE "embed"]
  IN IF outcome = "raise"
       THEN [base EXCEPT !.errors = Append(@, err("openai_batch_error")),
                         !.pc = "done"]
     ELSE IF outcome = "mismatch"
       THEN [base EXCEPT !.errors = Append(@, err("batch_mismatch")),
                         !.pc = "done"]
     ELSE IF outcome = "store_raise"
       THEN [base EXCEPT !.cacheNow = @ \cup ids,
                         !.wrote = @ \cup ids,
                         !.errors = @ \o [i \in DOMAIN c |-> err("mongo_set")]]
     ELSE IF outcome = "cache_raise"
       THEN [base EXCEPT !.cacheNow = @ \cup Range(Front(c)),
                         !.storeNow = IF j.write_back_db
                                        THEN @ \cup Range(Front(c)) ELSE @,
                         !.wrote = @ \cup Range(Front(c)),
                         !.embedded = @ + Len(Front(c)),
                         !.errors = Append(@, err("openai_batch_error"))]
     ELSE [base EXCEPT !.cacheNow = @ \cup ids,
                       !.storeNow = IF j.write_back_db THEN @ \cup ids ELSE @,
                       !.wrote = @ \cup ids,
                       !.embedded = @ + Len(c)]

\* embedding_svc.py:349-390  one provider chunk: embeddings.create, the
\* length check, then cache.set and set_vector per product.  A failing
\* set_vector fails for every product of the chunk; a cache.set that raises
\* ends the chunk through the except branch of line 387.
AfterChunk(j, outcome) ==
  LET c == j.chunks[j.k]
      ids == Range(c)
      err(tag) == [tag |-> tag, chunk |-> j.k]
      base == [j EXCEPT !.k = @ + 1,
                        !.outcomes = Append(@, outcome),
                        !.submitted = @ \cup ids,
                        !.pc = IF j.k = Len(j.chunks) THEN "done" ELSE "embed"]
  IN IF outcome = "raise"
       THEN [base EXCEPT !.errors = Append(@, err("openai_batch_error"))]
     ELSE IF outcome = "mismatch"
       THEN [base EXCEPT !.errors = Append(@, err("batch_mismatch"))]
     ELSE IF outcome = "store_raise"
       THEN [base EXCEPT !.cacheNow = @ \cup ids,
                         !.wrote = @ \cup ids,
                         !.errors = @ \o [i \in DOMAIN c |-> err("mongo_set")]]
     ELSE IF outcome = "cache_raise"
       THEN [base EXCEPT !.cacheNow = @ \cup Range(Front(c)),
                         !.storeNow = IF j.write_back_db
                                        THEN @ \cup Range(Front(c)) ELSE @,
                         !.wrote = @ \cup Range(Front(c)),
                         !.embedded = @ + Len(Front(c)),
                         !.errors = Append(@, err("openai_batch_error"))]
     ELSE [base EXCEPT !.cacheNow = @ \cup ids,
                       !.storeNow = IF j.write_back_db THEN @ \cup ids ELSE @,
                       !.wrote = @ \cup ids,
                       !.embedded = @ + Len(c)]

\* The product lists a job is called with: all products, a list with a
\* repeated id, no product.
JobIdLists ==
  { [i \in 1..MaxIds |-> i],
    [i \in 1..MaxIds |-> IF i = 3 THEN 1 ELSE MaxIds + 1 - i],
    <<>> }

\* State before the call.  late: products whose vector another process
\* stores between the scan of step 2 and the fetch of step 3.
JobInit ==
  /\ EmbIdle /\ RagIdle /\ RecoIdle /\ keyq = KeyIdle /\ fp = FpIdle
  /\ sq = SqIdle
  /\ \E ids \in JobIdLists, force \in BOOLEAN, write_back_db \in BOOLEAN,
        hydrate_cache \in BOOLEAN,
        exists \in {AllIds, AllIds \ {2}}, textless \in {{}, {3}},
        cached \in {{}, {1}, AllIds}, stored \in {{}, {1, MaxIds}},
        late \in {{}, {MaxIds - 1}} :
       job = [pc |-> "start", product_ids |-> ids, force |-> force,
              write_back_db |-> write_back_db,
              hydrate_cache |-> hydrate_cache,
              exists |-> exists, textless |-> textless,
              cached0 |-> cached, stored0 |-> stored, late |-> late,
              cacheNow |-> cached, storeNow |-> stored,
              cache_hits |-> 0, db_hits |-> 0, embedded |-> 0,
              missing_products |-> <<>>, errors |-> <<>>,
              to_embed |-> <<>>, chunks |-> <<>>, k |-> 1,
              cacheReads |-> 0, vecLookups |-> 0, guardReads |-> 0,
              outcomes |-> <<>>, submitted |-> {}, wrote |-> {}]

\* embedding_svc.py:197-285  steps 1 and 2 and the return when nothing is
\* left to embed
JobScan ==
  /\ job.pc = "start"
  /\ LET pass == CachePass(UniqueIds(job.product_ids), job.force,
                           job.cacheNow)
         scan == StoreScan(pass.to_check_db, job.force, job.hydrate_cache,
                           job.storeNow)
     IN job' = [job EXCEPT
                  !.cache_hits = pass.cache_hits,
                  !.cacheReads = pass.cacheReads,
                  !.db_hits = scan.db_hits,
                  !.vecLookups = scan.vecLookups,
                  !.cacheNow = @ \cup scan.hydrated,
                  !.to_embed = scan.to_embed,
                  !.pc = IF scan.to_embed = <<>> THEN "done" ELSE "fetch"]
  /\ UNCHANGED <<embVars, ragVars, recoVars, keyq, fp, sq>>

\* embedding_svc.py:301-347  the document fetches and the texts of step 3
JobFetch ==
  /\ job.pc = "fetch"
  /\ LET storedNow == job.storeNow \cup (job.late \cap job.exists)
         prep == Prepare(job.to_embed, job.force, job.exists, job.textless,
                         storedNow)
     IN job' = [job EXCEPT
                  !.storeNow = storedNow,
                  !.chunks = prep.chunks,
                  !.missing_products = prep.missing_products,
                  !.db_hits = @ + prep.db_hits,
                  !.guardReads = prep.guardReads,
                  !.pc = IF prep.chunks = <<>> THEN "done" ELSE "embed"]
  /\ UNCHANGED <<embVars, ragVars, recoVars, keyq, fp, sq>>

\* embedding_svc.py:349-390  the next provider chunk
JobChunk ==
  /\ job.pc = "embed"
  /\ \E outcome \in ChunkOutcomes :
       /\ outcome = "store_raise" => job.write_back_db
       /\ job' = AfterChunk(job, outcome)
  /\ UNCHANGED <<embVars, ragVars, recoVars, keyq, fp, sq>>

JobNext == JobScan \/ JobFetch \/ JobChunk

SpecJob == JobInit /\ [][JobNext]_vars

\* ------------------------------------------------------------------------
\* The blend of rag_svc.py:277 in the arithmetic of Python floats
\* (IEEE 754 binary64, round to nearest, ties to even)
\* ------------------------------------------------------------------------
\* Significant bits of a Python float.
MantissaBits == 53

\* Scores are drawn as k / Decimals, k in 0..Decimals.
Decimals == 10

\* Natural numbers too wide for one machine word are sequences of limbs,
\* least significant first; four limbs hold a mantissa.
LimbBits == (MantissaBits \div 4) + 1

LimbBase == 2 ^ LimbBits

Limb(N, k) == IF k \in DOMAIN N THEN N[k] ELSE 0

\* bit i of N, bit 0 the least significant
Bit(N, i) ==
  (Limb(N, (i \div LimbBits) + 1) \div (2 ^ (i % LimbBits))) % 2

\* the number of bits of N up to its highest set bit
BitLen(N) ==
  LET set == { i \in 0..(LimbBits * Len(N) - 1) : Bit(N, i) = 1 }
  IN IF set = {} THEN 0
     ELSE 1 + CHOOSE i \in set : \A j \in set : j <= i

\* digits of any size brought below LimbBase, the carries moving up
RECURSIVE Carry(_, _, _)
Carry(digits, k, c) ==
  IF k > Len(digits) THEN <<>>
  ELSE <<(digits[k] + c) % LimbBase>>
         \o Carry(digits, k + 1, (digits[k] + c) \div LimbBase)

\* N * 2^s on n limbs
Shl(N, s, n) ==
  LET q == s \div LimbBits
      r == s % LimbBits
  IN [k \in 1..n |->
        ((Limb(N, k - q) * (2 ^ r)) % LimbBase)
          + (Limb(N, k - q - 1) \div (2 ^ (LimbBits - r)))]

\* N \div 2^s on n limbs
Shr(N, s, n) ==
  LET q == s \div LimbBits
      r == s % LimbBits
  IN [k \in 1..n |->
        (Limb(N, k + q) \div (2 ^ r))
          + ((Limb(N, k + q + 1) % (2 ^ r)) * (2 ^ (LimbBits - r)))]

\* N + 1 and N - 1 on the limbs of N
Inc(N) ==
  [k \in DOMAIN N |->
     IF \A j \in 1..(k - 1) : N[j] = LimbBase - 1
       THEN (N[k] + 1) % LimbBase ELSE N[k]]

Dec(N) ==
  [k \in DOMAIN N |->
     IF \A j \in 1..(k - 1) : N[j] = 0
       THEN (N[k] + LimbBase - 1) % LimbBase ELSE N[k]]

\* A double is zero or m x 2^e with 2^52 <= m < 2^53.
MinMantissa == Shl(<<1>>, MantissaBits - 1, 4)

MaxMantissa == Dec(Shl(<<1>>, MantissaBits, 4))

DZero == [zero |-> TRUE, e |-> 0, m |-> <<0, 0, 0, 0>>]

Double(e, m) == [zero |-> FALSE, e |-> e, m |-> m]

\* The next double above and below a positive double.
Succ(x) ==
  IF x.m = MaxMantissa THEN Double(x.e + 1, MinMantissa)
  ELSE Double(x.e, Inc(x.m))

Pred(x) ==
  IF x.m = MinMantissa THEN Double(x.e - 1, MaxMantissa)
  ELSE Double(x.e, Dec(x.m))

\* N x 2^e (sticky: a non-zero fraction follows N) rounded to
\* MantissaBits bits, to nearest, ties to even
RoundNearestEven(N, sticky, e) ==
  LET len == BitLen(N)
      s == len - MantissaBits
  IN IF len = 0 THEN DZero
     ELSE IF s <= 0 THEN Double(e + s, Shl(N, 0 - s, 4))
     ELSE LET head == Shr(N, s, 4)
              guard == Bit(N, s - 1)
              rest == sticky \/ \E i \in 0..(s - 2) : Bit(N, i) = 1
              up == guard = 1 /\ (rest \/ Bit(head, 0) = 1)
          IN IF ~up THEN Double(e + s, head)
             ELSE IF head = MaxMantissa THEN Double(e + s + 1, MinMantissa)
             ELSE Double(e + s, Inc(head))

\* n / d scaled by a power of two into [1/2, 1)
RECURSIVE Norm(_, _, _)
Norm(n, d, e) ==
  IF 2 * n < d THEN Norm(2 * n, d, e - 1)
  ELSE IF n >= d THEN Norm(n, 2 * d, e + 1)
  ELSE [n |-> n, d |-> d, e |-> e]

\* N \div d and N % d for a one-limb d, from the highest limb down
RECURSIVE DivSmall(_, _, _, _)
DivSmall(N, d, k, rem) ==
  IF k = 0 THEN [q |-> <<>>, rem |-> rem]
  ELSE LET cur == (rem * LimbBase) + N[k]
           low == DivSmall(N, d, k - 1, cur % d)
       IN [q |-> Append(low.q, cur \div d), rem |-> low.rem]

\* float("n/d" written as a decimal), a literal, or float(r["score"]) of
\* rag_svc.py:263, 270: the double nearest to n / d
FromRatio(n, d) ==
  IF n = 0 THEN DZero
  ELSE LET z == Norm(n, d, 0)
           num == <<0, 0, 0, 0, z.n % LimbBase, z.n \div LimbBase>>
           q == DivSmall(num, z.d, Len(num), 0)
       IN RoundNearestEven(q.q, q.rem # 0, z.e - 4 * LimbBits)

\* x + y of two non-negative doubles
DAdd(x, y) ==
  IF x.zero THEN y
  ELSE IF y.zero THEN x
  ELSE LET hi == IF x.e >= y.e THEN x ELSE y
           lo == IF x.e >= y.e THEN y ELSE x
           sh == hi.e - lo.e
       IN IF sh > MantissaBits + 1 THEN hi
          ELSE LET wide == Shl(hi.m, sh, 9)
                   sum == Carry([k \in 1..9 |-> wide[k] + Limb(lo.m, k)],
                                1, 0)
               IN RoundNearestEven(sum, FALSE, lo.e)

\* x * y of two non-negative doubles
DMul(x, y) ==
  IF x.zero \/ y.zero THEN DZero
  ELSE LET cross(k) ==
             Limb(x.m, 1) * Limb(y.m, k) + Limb(x.m, 2) * Limb(y.m, k - 1)
               + Limb(x.m, 3) * Limb(y.m, k - 2)
               + Limb(x.m, 4) * Limb(y.m, k - 3)
           prod == Carry([k \in 1..8 |-> cross(k)], 1, 0)
       IN RoundNearestEven(prod, FALSE, x.e + y.e)

\* constants.py:6  RERANK_ALPHA = 0.75 as a double
AlphaDouble == FromRatio(RERANK_ALPHA, Scale)

\* rag_svc.py:277  1 - RERANK_ALPHA: the difference of two doubles is the
\* double nearest to their exact difference, here 0.25 itself
OneMinusAlpha == FromRatio(Scale - RERANK_ALPHA, Scale)

\* A blend with the two weights exchanged.
BlendDoubleSwapped(llm, init) ==
  DAdd(DMul(OneMinusAlpha, llm), DMul(AlphaDouble, init))

\* rag_svc.py:277  RERANK_ALPHA * llm + (1 - RERANK_ALPHA) * init
BlendDouble(llm, init) ==
  DAdd(DMul(AlphaDouble, llm), DMul(OneMinusAlpha, init))

FpInit ==
  /\ EmbIdle /\ RagIdle /\ RecoIdle /\ keyq = KeyIdle /\ job = JobIdle
  /\ sq = SqIdle
  /\ \E l \in 0..Decimals, i \in 0..Decimals :
       fp = [pc |-> "ready", l |-> l, i |-> i,
             llm |-> FromRatio(l, Decimals), init |-> FromRatio(i, Decimals),
             out |-> DZero]

\* rag_svc.py:272-277  the blend of one candidate the model scored
FpBlend ==
  /\ fp.pc = "ready"
  /\ fp' = [fp EXCEPT !.pc = "done", !.out = BlendDouble(fp.llm, fp.init)]
  /\ UNCHANGED <<embVars, ragVars, recoVars, keyq, job, sq>>

FpNext == FpBlend

SpecFp == FpInit /\ [][FpNext]_vars

\* ------------------------------------------------------------------------
\* The search queries of one retrieval: recommend's filters and call of
\* retrieve_candidates (pipeline_svc.py:133-148), retrieve_candidates
\* (retrieval.py) and ProductSearchRepo (product_search_repo.py)
\* ------------------------------------------------------------------------
\* A clause of a compound filter: its operator and the field it constrains.
Clause(op, path) == [op |-> op, path |-> path]

\* The source product, by what default_filters reads of it.
Sources ==
  [category_id : BOOLEAN, tags : BOOLEAN, name : BOOLEAN,
   gender : {"None", "male", "unisex"}]

\* filters.py:38-166  default_filters(kind, src)
DefaultFilters(kind, src) ==
  <<Clause("range", "stock")>>
  \o (IF kind = KIND_COMPLEMENTARY THEN
        (IF src.category_id THEN <<Clause("not", "category_id")>> ELSE <<>>)
        \o (IF src.tags THEN <<Clause("text", "tags")>> ELSE <<>>)
        \o (IF src.name THEN <<Clause("not", "name")>> ELSE <<>>)
      ELSE IF kind = KIND_SIMILAR THEN
        (IF src.category_id
           THEN <<Clause("equals", "category_id")>> ELSE <<>>)
        \o (IF src.name THEN <<Clause("not", "name")>> ELSE <<>>)
        \o <<Clause("not", "parent_product_id")>>
      ELSE <<>>)
  \o (IF kind \in {KIND_COMPLEMENTARY, KIND_SIMILAR}
         /\ src.gender \in {"male", "female"}
        THEN <<Clause("not", "metadata.gender")>> ELSE <<>>)

\* must_filters as the caller gives it: None, the empty dict, or a dict
\* with compound.filter, a list of clauses that may be empty.
CallerFilters ==
  { [dict |-> "None", clauses |-> <<>>],
    [dict |-> "empty", clauses |-> <<>>] }
  \cup { [dict |-> "compound", clauses |-> c] :
           c \in { <<>>,
                   <<Clause("equals", "brand")>>,
                   <<Clause("not", "brand")>>,
                   <<Clause("range", "price"), Clause("in", "tags"),
                     Clause("exists", "image_url")>> } }

\* pipeline_svc.py:133  must_filters or default_filters(kind, src): None
\* and the empty dict are falsy
EffFilters(must, kind, src) ==
  IF must.dict = "compound" THEN must
  ELSE [dict |-> "compound", clauses |-> DefaultFilters(kind, src)]

\* product_search_repo.py:52-73  _to_mql: the MQL constraints of a clause,
\* none for an operator it does not know
ToMql(clause) ==
  IF clause.op = "equals" THEN <<[mql |-> "$eq", path |-> clause.path]>>
  ELSE IF clause.op = "range"
    THEN <<[mql |-> "$range", path |-> clause.path]>>
  ELSE IF clause.op = "in" THEN <<[mql |-> "$in", path |-> clause.path]>>
  ELSE IF clause.op = "exists"
    THEN <<[mql |-> "$exists", path |-> clause.path]>>
  ELSE <<>>

RECURSIVE MqlOf(_)
MqlOf(clauses) ==
  IF clauses = <<>> THEN <<>>
  ELSE ToMql(Head(clauses)) \o MqlOf(Tail(clauses))

\* product_search_repo.py:75-101  the $match stage: left out when no
\* constraint is left
VectorFilter(filters) ==
  LET mql == MqlOf(filters.clauses)
  IN [present |-> mql # <<>>, constraints |-> mql]

\* retrieval.py:48-70, product_search_repo.py:256  compound.filter of the
\* $search stage: the clauses as they are, under a key that is always set
TextFilter(filters) ==
  [present |-> TRUE,
   constraints |-> [i \in DOMAIN filters.clauses |->
                      [search |-> filters.clauses[i].op,
                       path |-> filters.clauses[i].path]]]

\* retrieval.py:8-9  _vector_path
VectorPath(kind) == [root |-> "vectors", kind |-> kind, leaf |-> "vector"]

\* pipeline_svc.py:142-148  recommend calls retrieve_candidates without
\* kind, whose default is "sim" (retrieval.py:17)
RetrievalKind(kind) == KIND_SIMILAR

Max(a, b) == IF a >= b THEN a ELSE b

NoQuery ==
  [sent |-> FALSE, path |-> VectorPath("None"), limit |-> 0,
   numCandidates |-> 0, filter |-> [present |-> FALSE, constraints |-> <<>>]]

\* retrieval.py:30-38, product_search_repo.py:86-101  the $vectorSearch
\* pipeline
VectorQuery(kind, filters, k) ==
  [sent |-> TRUE, path |-> VectorPath(kind), limit |-> k,
   numCandidates |-> Max(200, 10 * k), filter |-> VectorFilter(filters)]

\* retrieval.py:46-80, product_search_repo.py:256  the $search pipeline
TextQuery(filters, k) ==
  [sent |-> TRUE, path |-> VectorPath("None"), limit |-> k,
   numCandidates |-> 0, filter |-> TextFilter(filters)]

SqInit ==
  /\ EmbIdle /\ RagIdle /\ RecoIdle
  /\ keyq = KeyIdle /\ job = JobIdle /\ fp = FpIdle
  /\ \E kind \in {KIND_SIMILAR, KIND_COMPLEMENTARY}, must \in CallerFilters,
        src \in Sources, vec \in BOOLEAN, found \in BOOLEAN,
        text \in BOOLEAN :
       sq = [pc |-> "ready", kind |-> kind, must |-> must, src |-> src,
             vec |-> vec, found |-> vec /\ found, text |-> text,
             eff |-> EffFilters(must, kind, src),
             vq |-> NoQuery, tq |-> NoQuery]

\* pipeline_svc.py:133-148, retrieval.py:29-92  the queries one retrieval
\* submits.  vec: a vector is available; found: the vector search returns
\* items; text: the fallback text is not empty
SqRetrieve ==
  /\ sq.pc = "ready"
  /\ sq' = [sq EXCEPT
              !.pc = "done",
              !.vq = IF sq.vec
                       THEN VectorQuery(RetrievalKind(sq.kind), sq.eff,
                                        RETRIEVAL_K)
                       ELSE NoQuery,
              !.tq = IF ~sq.found /\ sq.text
                       THEN TextQuery(sq.eff, RETRIEVAL_K)
                       ELSE NoQuery]
  /\ UNCHANGED <<embVars, ragVars, recoVars, keyq, job, fp>>

SqNext == SqRetrieve

SpecSq == SqInit /\ [][SqNext]_vars

\* ------------------------------------------------------------------------
\* Every sequential run: one rag_answer call, recommend calls, or
\* cross-sell calls
\* ------------------------------------------------------------------------
Init == RagInit \/ RecoInit \/ XsellInit

Next == RagNext \/ RecoNext \/ XsellNext

Spec == Init /\ [][Next]_vars

\* ------------------------------------------------------------------------
\* Properties of the embedding cache and lock
\* ------------------------------------------------------------------------
RECURSIVE SumOver(_, _)
SumOver(f, S) ==
  IF S = {} THEN 0
  ELSE LET x == CHOOSE y \in S : TRUE IN f[x] + SumOver(f, S \ {x})

\* Provider calls made by all get_or_create_embedding requests together.
TotalEmbCalls == SumOver(embCalls, Requests)

AllRequestsDone == \A p \in Requests : epc[p] = "done"

C3_SecondCallServedFromCache ==
  (last.op = "recommend" /\ last.repeat)
    => (last.sameAsPrev /\ last.embCalls = 0 /\ last.llmCalls = 0)

\* C4: when recommend is called twice in a row for a product that is not in
\* the document store, the second call is served from the cached empty
\* result and does not look the product up again.
C4_NegativeCacheServesSecondCall ==
  (last.op = "recommend" /\ last.repeat /\ ~srcExists)
    => (last.path = "cache_hit" /\ last.srcLookups = 0)

\* C5: every result returned by recommend and by the cross-sell service has
\* count equal to the number of its items, on every return path.
C5_CountIsLength ==
  last.op # "none" => last.count = Len(last.items)

\* C5 witness: a cross-sell call is served from a legacy-format entry that
\* holds two items.
C5_Witness ==
  /\ last.op = "xsell" /\ last.path = "legacy_hit"
  /\ Len(last.items) = 2 /\ last.count = 2

SortedDesc(items) ==
  \A i, j \in DOMAIN items : i < j => items[i].score >= items[j].score

\* Position of an id in the candidates handed to the rerank.
FirstPos(candidates, pid) ==
  CHOOSE i \in DOMAIN candidates :
    /\ candidates[i].product_id = pid
    /\ \A j \in 1..(i - 1) : candidates[j].product_id # pid

\* Items with equal score stand in the order their ids have in candidates.
TiesKeepInputOrder(items, candidates) ==
  \A i, j \in DOMAIN items :
    (i < j /\ items[i].score = items[j].score)
      => FirstPos(candidates, items[i].product_id)
           <= FirstPos(candidates, items[j].product_id)

\* Every result of recommend is in non-increasing score order.
RecommendSorted == last.op = "recommend" => SortedDesc(last.items)

\* C6: every result of recommend has its items in non-increasing score
\* order, and items with equal score keep the order they had as retrieved
\* candidates.
C6_SortedTiesKeepInputOrder ==
  last.op = "recommend"
    => /\ SortedDesc(last.items)
       /\ last.path = "fresh"
            => TiesKeepInputOrder(last.items, last.retrieved)

Invalid(content) == content.tag = "content" /\ ~ParseOk(content)

Valid(content) == content.tag = "content" /\ ParseOk(content)

\* The rerank of the call cannot complete.
RerankCannotComplete ==
  /\ rin.candidates # <<>>
  /\ \/ rin.hydrateErr
     \/ rin.kind \notin PromptKinds
     \/ rin.answers[1].tag = "error"
     \/ \E k \in 1..max_retries :
          /\ \A j \in 1..k : Invalid(rin.answers[j])
          /\ rin.answers[k + 1].tag = "error"
     \/ \A j \in 1..(max_retries + 1) : Invalid(rin.answers[j])

\* C7: whenever the rerank cannot complete (hydration error, unknown kind,
\* provider error, schema violations beyond the retry budget), rag_answer
\* raises nothing and returns the input candidates unchanged.
C7_FailOpenForAnyFailure ==
  (rpc = "done" /\ RerankCannotComplete)
    => (~rout.raised /\ rout.items = rin.candidates)

\* The call reaches the completion provider: documents hydrate and the
\* prompts of the kind exist.
RerankTakesPlace ==
  /\ rpc = "done"
  /\ rin.candidates # <<>>
  /\ ~rin.hydrateErr
  /\ rin.kind \in {"comp", "sim", "xsell"}

\* C8: in one rerank the provider is called at most 3 times; two invalid
\* responses followed by a valid third make the rerank use the third
\* response's parsed results; three invalid responses end the rerank without
\* a fourth call and the original candidates are returned.
C8_SchemaRetry ==
  RerankTakesPlace =>
    /\ rout.calls <= 3
    /\ (Invalid(rin.answers[1]) /\ Invalid(rin.answers[2])
        /\ Valid(rin.answers[3]))
         => /\ rout.applied /\ rout.used = 3 /\ rout.calls = 3
            /\ rout.items =
                 Finish(rin.kind,
                        Blended(rin.candidates, rin.present,
                                Dedupe(rin.answers[3].results)),
                        rin.include_rationale)
    /\ (\A j \in 1..3 : Invalid(rin.answers[j]))
         => /\ rout.calls = 3 /\ ~rout.applied /\ ~rout.raised
            /\ rout.items = rin.candidates

\* C8 witness: the third response is the first valid one and its scores
\* put the candidates in another order than they were retrieved in.
C8_Witness ==
  /\ RerankTakesPlace
  /\ Invalid(rin.answers[1]) /\ Invalid(rin.answers[2])
  /\ Valid(rin.answers[3])
  /\ rout.used = 3 /\ rout.calls = 3
  /\ Len(rout.items) = Len(rin.candidates)
  /\ Ids(rout.items) # Ids(rin.candidates)

\* C9: with a vector whose search finds nothing and a fallback text,
\* retrieve_candidates runs the text search exactly once and returns its
\* results; with no vector and no fallback text it runs neither search and
\* returns nothing, and recommend returns an empty result with count 0.
C9_FallbackRetrieval ==
  (last.op = "recommend" /\ last.path \in {"fresh", "fallback_cache"})
    => /\ (last.hadVec /\ ~last.vecErr /\ vecHits = <<>>
           /\ last.use_text_fallback)
            => /\ last.vecSearches = 1 /\ last.textSearches = 1
               /\ ~last.textErr => last.retrieved = Take(textHits, RETRIEVAL_K)
       /\ (~last.hadVec /\ ~last.use_text_fallback)
            => /\ last.vecSearches = 0 /\ last.textSearches = 0
               /\ last.retrieved = <<>>
               /\ last.path = "fresh"
               /\ last.items = <<>> /\ last.count = 0

\* C9 witness: the vector search found nothing and the call returned what
\* the text search ranked.
C9_Witness ==
  /\ last.op = "recommend" /\ last.path = "fresh"
  /\ last.hadVec /\ ~last.vecErr /\ vecHits = <<>>
  /\ last.vecSearches = 1 /\ last.textSearches = 1
  /\ last.items # <<>> /\ last.items = textHits

\* The minimum score the kinds are documented with.
ClaimedMinScore(kind) ==
  IF kind \in {"sim", "comp", "sim_rich", "comp_rich"}
    THEN Scale \div 2 ELSE 0

AllAtLeast(items, min) == \A i \in DOMAIN items : items[i].score >= min

\* C10: no item whose blended score is below the minimum score of the kind
\* (0.5 for sim, comp and their rich variants, 0 for xsell, upsell and
\* unknown kinds) is in the list rag_answer returns, nor in the list
\* recommend or the cross-sell service returns from it.
C10_NoItemBelowMinScore ==
  /\ \A kind \in {"sim", "comp", "sim_rich", "comp_rich", "xsell", "upsell",
                  "other"} :
       MinScoreThreshold(kind) = ClaimedMinScore(kind)
  /\ (rpc = "done" /\ rout.applied)
       => AllAtLeast(rout.items, ClaimedMinScore(rin.kind))
  /\ last.reranked => AllAtLeast(last.items, ClaimedMinScore(skind))

\* C10 witness: a rerank for sim kept one candidate and dropped another one
\* whose blended score fell below 0.5.
C10_Witness ==
  /\ rpc = "done" /\ rout.applied /\ rin.kind = "sim"
  /\ rout.items # <<>>
  /\ \E i \in DOMAIN rin.candidates :
       \A j \in DOMAIN rout.items :
         rout.items[j].product_id # rin.candidates[i].product_id

\* C11: after any sequence of recommend calls, a list stored under the
\* result-cache key with rerank=true was reranked by the completion model;
\* the output of a call whose rerank was requested but did not succeed is
\* never stored under that key.
C11_RerankKeyHoldsRerankedList ==
  (recoCache[BuildCacheKey(TRUE)].present
   /\ recoCache[BuildCacheKey(TRUE)].items # <<>>)
    => recoCache[BuildCacheKey(TRUE)].reranked

\* C12: when the rerank was requested but failed and no non-reranked result
\* was cached, recommend writes the fresh truncated output under the
\* rerank=false key, so that an identical request with rerank disabled that
\* follows at once is a result-cache hit.
C12_FailedRerankWritesNonRerankedKey ==
  (/\ last.op = "recommend" /\ last.path = "fresh" /\ ~expiredSince
   /\ last.use_llm /\ last.retrieved # <<>> /\ ~last.reranked)
    => /\ Truthy(RecoCacheGet(recoCache, BuildCacheKey(FALSE)))
       /\ RecoCacheGet(recoCache, BuildCacheKey(FALSE)).items = last.items

\* C13: when the rerank was requested, the completion provider fails and a
\* non-reranked result for the same query is in the result cache, recommend
\* returns exactly that cached list, not the fresh retrieval output (which
\* it would also write to the cache).
C13_ProviderFailureServesCachedList ==
  (/\ last.op = "recommend" /\ last.path # "cache_hit" /\ ~expiredSince
   /\ last.use_llm /\ last.retrieved # <<>> /\ senv.rag = "error"
   /\ Truthy(RecoCacheGet(recoCache, BuildCacheKey(FALSE))))
    => /\ last.path = "fallback_cache"
       /\ last.items = RecoCacheGet(recoCache, BuildCacheKey(FALSE)).items

\* C14: when the cache store is unavailable (no client, or every cache
\* operation raising), recommend and the cross-sell service still complete
\* and return a result as if every cache read were a miss and every cache
\* write a no-op; no cache-store error reaches the caller.
C14_CacheUnavailablePassThrough ==
  (senv.cache # "up" /\ last.op # "none")
    => /\ last.path \notin {"raised", "cache_hit", "legacy_hit",
                            "fallback_cache"}
       /\ last.srcLookups = 1
       /\ last.count = Len(last.items)

\* C15: if get_or_create_embedding raises or yields no vector, recommend
\* does not abort: it goes on with no vector, skips the vector search and,
\* when a fallback text is available, retrieves through the text search.
C15_EmbeddingFailureFallsBackToText ==
  /\ (/\ last.op = "recommend" /\ ~senv.embOk /\ ~svcStoredVec
      /\ last.path \notin {"cache_hit", "no_source"})
       => (last.path = "fresh" /\ ~last.hadVec /\ last.embCalls = 1)
  /\ (last.op = "recommend" /\ last.path = "fresh" /\ ~last.hadVec)
       => /\ last.vecSearches = 0
          /\ last.textSearches = (IF last.use_text_fallback THEN 1 ELSE 0)
          /\ (last.use_text_fallback /\ ~last.textErr)
               => /\ last.retrieved = Take(textHits, RETRIEVAL_K)
                  /\ (~last.use_llm => last.items = Take(textHits, FINAL_K))

\* C15 witness: the embedding provider failed and the call returned what
\* the text search ranked, without a vector search.
C15_Witness ==
  /\ last.op = "recommend" /\ last.path = "fresh" /\ ~senv.embOk
  /\ last.embCalls = 1 /\ ~last.hadVec
  /\ last.vecSearches = 0 /\ last.textSearches = 1
  /\ last.items # <<>> /\ last.items = textHits

\* The two requests agree on everything the key is made of.  None and the
\* empty dict are the same filters.
SameQuery(a, b) ==
  /\ a.version = b.version /\ a.kind = b.kind
  /\ a.product_id = b.product_id /\ OrEmpty(a.must) = OrEmpty(b.must)
  /\ a.model = b.model /\ a.use_llm = b.use_llm

\* Equal requests get equal keys.
KeyIsFunctionOfQuery ==
  (keyq.pc = "done" /\ SameQuery(keyq.a, keyq.b)) => keyq.ka = keyq.kb

\* C16: the recommend result-cache key is a deterministic function of (api
\* version, kind, product id, filters, embedding model id, final limit,
\* rerank mode): two requests equal in all of these get the same key, and
\* two requests that differ in any filter, in rerank mode or in model get
\* different keys.
C16_KeyTellsQueriesApart ==
  keyq.pc = "done"
    => /\ SameQuery(keyq.a, keyq.b) => keyq.ka = keyq.kb
       /\ (\/ OrEmpty(keyq.a.must) # OrEmpty(keyq.b.must)
           \/ keyq.a.use_llm # keyq.b.use_llm
           \/ keyq.a.model # keyq.b.model)
            => keyq.ka # keyq.kb

\* C17: every result returned by recommend has at most FINAL_K (10) items,
\* a size smaller than the retrieval pool RETRIEVAL_K (30), on every path
\* including result-cache hits and the rerank-failure cache fallback; every
\* freshly computed cross-sell result has at most `limit` items.
C17_ResultsTruncated ==
  /\ FINAL_K = 10 /\ RETRIEVAL_K = 30 /\ FINAL_K < RETRIEVAL_K
  /\ last.op = "recommend" => Len(last.items) <= FINAL_K
  /\ \A key \in BOOLEAN : Len(recoCache[key].items) <= FINAL_K
  /\ (last.op = "xsell" /\ last.path \notin {"cache_hit", "legacy_hit"})
       => Len(last.items) <= xs.limit

\* C17 witness: a result-cache hit serves FINAL_K items of a retrieval that
\* had found more.
C17_Witness ==
  /\ last.op = "recommend" /\ last.path = "cache_hit"
  /\ Len(vecHits) > FINAL_K
  /\ Len(last.items) = FINAL_K

\* C18: a request that fails to acquire the embedding lock never blocks
\* indefinitely: its wait loop ends after at most WaitPolls (lock TTL x 10)
\* polls even if the lock key is never released or is taken again by other
\* requests, and the request then returns.
C18_WaiterReturns ==
  /\ [](\A p \in Requests : polls[p] <= WaitPolls)
  /\ \A p \in Requests : (epc[p] = "wait") ~> (epc[p] = "done")

\* C18 witness: a waiter has returned after all its polls found the lock
\* key, which another request still holds.
C18_Witness ==
  \E p \in Requests :
    /\ epc[p] = "done" /\ ~acquired[p] /\ polls[p] = WaitPolls
    /\ lockKey # Nil /\ lockKey # p

\* Chunks of the job whose provider call raised or returned a number of
\* vectors other than the number of texts.
FailedChunks ==
  { i \in DOMAIN job.outcomes : job.outcomes[i] \in {"raise", "mismatch"} }

\* C19: in batch_get_or_create_embeddings a provider chunk that raises, or
\* that returns a number of vectors different from the number of texts
\* sent, does not abort the job: one error is recorded for that chunk, no
\* vector of that chunk is written to the cache or the store, and every
\* later chunk is still processed.
C19_FailedChunkSkipped ==
  job.pc \in {"embed", "done"}
    => /\ \A i \in FailedChunks :
            /\ Cardinality({ e \in DOMAIN job.errors :
                               job.errors[e].chunk = i }) = 1
            /\ Range(job.chunks[i]) \cap job.wrote = {}
            /\ Range(job.chunks[i]) \cap job.cacheNow
                 \subseteq job.cached0 \cup job.stored0
            /\ Range(job.chunks[i]) \cap job.storeNow
                 \subseteq job.stored0 \cup job.late
       /\ job.pc = "embed" => Len(job.outcomes) = job.k - 1
                              /\ job.k <= Len(job.chunks)
       /\ job.pc = "done" => Len(job.outcomes) = Len(job.chunks)

\* C19 witness: the job is over, its first chunk failed and a later chunk
\* was embedded and written.
C19_Witness ==
  /\ job.pc = "done" /\ Len(job.chunks) >= 2
  /\ job.outcomes[1] \in {"raise", "mismatch"}
  /\ job.outcomes[Len(job.chunks)] = "ok"
  /\ job.embedded > 0 /\ Len(job.errors) = 1

\* C20: batch_get_or_create_embeddings with force=true performs no cache
\* read and no stored-vector lookup, reports cache_hits = 0 and
\* db_hits = 0, and submits every requested product that exists in the
\* store with non-empty text to the provider even when a vector for it is
\* already cached or stored.
C20_ForceSkipsLookups ==
  (job.pc # "off" /\ job.force)
    => /\ job.cacheReads = 0 /\ job.vecLookups = 0 /\ job.guardReads = 0
       /\ job.cache_hits = 0 /\ job.db_hits = 0
       /\ job.pc = "done"
            => job.submitted =
                 (Range(job.product_ids) \cap job.exists) \ job.textless

\* C20 witness: a forced job has sent to the provider a product whose
\* vector was cached and one whose vector was stored.
C20_Witness ==
  /\ job.pc = "done" /\ job.force
  /\ job.submitted \cap job.cached0 # {}
  /\ job.submitted \cap job.stored0 # {}
  /\ job.cache_hits = 0 /\ job.db_hits = 0

\* A candidate the completion was shown and whose id the response used by
\* the rerank does not hold.
OmittedByModel(c) ==
  /\ c.product_id \in rin.present
  /\ \A j \in DOMAIN rin.answers[rout.used].results :
       rin.answers[rout.used].results[j].product_id # c.product_id

\* C21: after a successful rerank, a candidate that the model's response
\* omits keeps a blended score equal to its retrieval score (not zero, and
\* not scaled down by the blending weight).
C21_OmittedKeepsRetrievalScore ==
  (rpc = "done" /\ rout.applied)
    => \A i \in DOMAIN rin.candidates :
         (/\ OmittedByModel(rin.candidates[i])
          /\ rin.candidates[i].score >= MinScoreThreshold(rin.kind))
           => \E j \in DOMAIN rout.items :
                /\ rout.items[j].product_id = rin.candidates[i].product_id
                /\ rout.items[j].score = rin.candidates[i].score

\* The doubles at most k units in the last place away from x.
RECURSIVE Neighbours(_, _)
Neighbours(x, k) ==
  IF k = 0 \/ x.zero THEN {x}
  ELSE LET S == Neighbours(x, k - 1)
       IN S \cup { Succ(s) : s \in S } \cup { Pred(s) : s \in S }

\* The double nearest to the real number
\* alpha * l / Decimals + (1 - alpha) * i / Decimals.
ExactBlend(l, i) ==
  FromRatio(RERANK_ALPHA * l + (Scale - RERANK_ALPHA) * i, Scale * Decimals)

\* C22 as stated: for every candidate scored by the model the blended score
\* equals alpha * modelScore + (1 - alpha) * retrievalScore with
\* alpha = 0.75, and for modelScore 0.8 and retrievalScore 0.4 it is
\* exactly 0.70.
C22_BlendExact ==
  fp.pc = "done"
    => /\ RERANK_ALPHA * 4 = Scale * 3
       /\ fp.out = ExactBlend(fp.l, fp.i)
       /\ (fp.llm = FromRatio(8, 10) /\ fp.init = FromRatio(4, 10))
            => fp.out = FromRatio(7, 10)

\* C22 amended: the blended score is the double-precision value of
\* alpha * modelScore + (1 - alpha) * retrievalScore with alpha = 0.75, at
\* most two units in the last place from the real value; for 0.8 and 0.4 it
\* is the double just above 0.70.
C22_BlendWithinUlps ==
  fp.pc = "done"
    => /\ RERANK_ALPHA * 4 = Scale * 3
       /\ fp.out \in Neighbours(ExactBlend(fp.l, fp.i), 2)
       /\ (fp.llm = FromRatio(8, 10) /\ fp.init = FromRatio(4, 10))
            => fp.out = Succ(FromRatio(7, 10))

\* C22 witness: 0.8 and 0.4 were blended and the result is not the double
\* 0.70.
C22_Witness ==
  /\ fp.pc = "done"
  /\ fp.llm = FromRatio(8, 10) /\ fp.init = FromRatio(4, 10)
  /\ fp.out # FromRatio(7, 10)
  /\ fp.out \in Neighbours(FromRatio(7, 10), 1)

\* C23: for a cross-sell request with a user id, a freshly computed result
\* holds no product the user purchased when exclude_already_purchased is
\* set, no product the user added to cart when exclude_already_in_cart is
\* set, and never the source product.
C23_FreshResultExcludesHistory ==
  (/\ last.op = "xsell" /\ xs.user_id # "None"
   /\ last.path \notin {"cache_hit", "legacy_hit"})
    => \A i \in DOMAIN last.items :
         /\ xs.exclude_already_purchased
              => last.items[i].product_id
                   \notin PurchasedIds(xs.orders, xs.user_id)
         /\ xs.exclude_already_in_cart
              => last.items[i].product_id \notin xs.cart
         /\ last.items[i].product_id # XPid

\* The steps of request p that read the store, use the lock key or call the
\* provider are the steps taken at these positions.
AtStore(pc) == pc \in {"db_get"}

AtLock(pc) == pc \in {"acquire", "wait", "release"}

AtProvider(pc) == pc \in {"load", "embed"}

\* C24: get_or_create_embedding resolves in the order cache, document
\* store, compute: after a cache hit the request is done without a step at
\* the store, the lock or the provider; after a store hit it writes the
\* stored vector to the cache and is done without a step at the lock or the
\* provider; it reaches the lock acquisition only from a store miss that
\* followed a cache miss.
C24_ResolutionOrder ==
  [][\A p \in Requests :
       /\ (epc[p] = "cache_get" /\ epc'[p] # "cache_get")
            => IF vcache # Nil
                 THEN epc'[p] = "done" /\ evec'[p] = vcache
                 ELSE epc'[p] = "db_get"
       /\ (epc[p] = "db_get" /\ epc'[p] # "db_get")
            => IF storeVec # Nil
                 THEN epc'[p] = "backfill" /\ evec'[p] = storeVec
                 ELSE epc'[p] = "acquire"
       /\ (epc[p] = "backfill" /\ epc'[p] # "backfill")
            => /\ epc'[p] = "done"
               /\ vcache' = evec[p]
               /\ evec'[p] = evec[p]
       /\ (epc'[p] # epc[p] /\ AtStore(epc'[p])) => epc[p] = "cache_get"
       /\ (epc'[p] # epc[p] /\ epc'[p] = "acquire") => epc[p] = "db_get"
       /\ (epc'[p] # epc[p] /\ (AtLock(epc'[p]) \/ AtProvider(epc'[p])))
            => epc[p] \notin {"cache_get", "backfill"}
       /\ (epc[p] \in {"cache_get", "db_get", "backfill"})
            => /\ acquired'[p] = acquired[p] /\ ~acquired[p]
               /\ embCalls'[p] = embCalls[p] /\ embCalls[p] = 0
               /\ (lockKey' # lockKey => lockKey # p /\ lockKey' # p)
  ]_vars

\* C24 witness: the cache was empty, the store holds the vector, and a
\* request is done with the stored vector written to the cache, without the
\* lock and without a provider call.
C24_Witness ==
  \E p \in Requests :
    /\ ~ehist.cached0 /\ ~ehist.cacheExpired
    /\ storeVec # Nil
    /\ epc[p] = "done" /\ evec[p] = storeVec /\ vcache = storeVec
    /\ ~acquired[p] /\ polls[p] = 0 /\ embCalls[p] = 0
    /\ lockKey = Nil

\* C25: a request that acquired the embedding lock reads the cache again
\* before it computes: when the cache holds a vector at that read (another
\* request wrote it after this request's first cache miss), the request
\* returns that vector and makes no provider call; the provider is called
\* only after a re-read that found nothing.
C25_RecheckUnderLock ==
  [][\A p \in Requests :
       /\ (epc[p] = "acquire" /\ acquired'[p]) => epc'[p] = "recheck"
       /\ (epc[p] = "recheck" /\ epc'[p] # "recheck")
            => IF vcache # Nil
                 THEN /\ epc'[p] = "release"
                      /\ evec'[p] = vcache
                      /\ embCalls'[p] = 0
                 ELSE epc'[p] = "load"
       /\ (epc'[p] # epc[p] /\ epc'[p] = "load")
            => (epc[p] = "recheck" /\ vcache = Nil)
       /\ embCalls'[p] # embCalls[p] => epc[p] = "load"
       /\ (epc[p] = "release" /\ epc'[p] = "done")
            => (evec'[p] = evec[p] /\ embCalls'[p] = embCalls[p])
  ]_vars

\* C25 witness: cache and store were empty, one request computed the vector
\* and another, which had missed the cache and then got the lock, is done
\* with that vector and no provider call of its own.
C25_Witness ==
  \E p, q \in Requests :
    /\ p # q /\ ehist.uncached0
    /\ acquired[p] /\ epc[p] = "done" /\ embCalls[p] = 0
    /\ evec[p] = TrueVec /\ ~eraised[p]
    /\ embCalls[q] = 1 /\ acquired[q]

\* C26: a request that acquired the embedding lock deletes the lock key
\* before it returns, whatever the exit path (vector computed, cache hit on
\* the re-check, product not found, provider or cache exception), and no
\* step of a request that did not acquire the lock changes the lock key.
C26_HolderAlwaysReleases ==
  [][\A p \in Requests :
       /\ (acquired[p] /\ epc[p] # "done" /\ epc'[p] = "done")
            => (epc[p] = "release" /\ lockKey' = Nil)
       /\ (acquired[p] /\ epc'[p] # epc[p]
           /\ epc[p] \in {"recheck", "load", "embed", "cache_set"})
            => epc'[p] \in {"load", "embed", "cache_set", "release"}
       /\ (~acquired'[p] /\ epc'[p] # epc[p]) => lockKey' = lockKey
  ]_vars

\* C26 witness: a lock holder left through a cache exception and the lock
\* key is gone, while a request that had not got the lock is done too.
C26_Witness ==
  \E p, q \in Requests :
    /\ p # q
    /\ acquired[p] /\ eraised[p] /\ embCalls[p] = 1 /\ epc[p] = "done"
    /\ ~ehist.provFailed /\ ~ehist.lockExpired
    /\ lockKey = Nil
    /\ ~acquired[q] /\ polls[q] > 0 /\ epc[q] = "done"

\* C27: a request that failed to acquire the embedding lock watches for the
\* cached vector up to the lock TTL: a request that returned before its
\* polls were used up returned the vector, if the vector of its key was
\* written to the cache; it returns empty, not an error, otherwise.
C27_WaiterReturnsWrittenVector ==
  \A q \in Requests :
    (/\ ~acquired[q] /\ epc[q] = "done"
     /\ polls[q] \in 1..(WaitPolls - 1)
     /\ ~ehist.cacheExpired)
      => /\ ~eraised[q]
         /\ vcache # Nil => evec[q] = vcache

Crashed == \E p \in Requests : epc[p] = "crashed"

\* Request q is through with the lock: it got it and is past the provider
\* call (with the vector, an exception or no product), or it did not get it
\* and has returned.
Settled(q) ==
  \/ /\ acquired[q] /\ epc[q] \in {"release", "done"}
     /\ (evec[q] = TrueVec \/ eraised[q] \/ ~prodExists)
  \/ /\ acquired[q] /\ epc[q] = "crashed"
  \/ /\ ~acquired[q] /\ epc[q] = "done"

\* C29: when a lock holder died without releasing, no request that failed
\* to acquire the lock calls the provider or raises, every such request
\* returns after its bounded wait, with nothing when the cache is still
\* empty at its read, and a request that finds the lock key expired
\* acquires the lock, computes and writes the vector to the cache.
C29_CrashedHolderHeals ==
  /\ [](\A q \in Requests :
          ~acquired[q] => (embCalls[q] = 0 /\ ~eraised[q]))
  /\ [][\A q \in Requests :
          /\ (epc[q] = "wait_get" /\ epc'[q] # "wait_get")
               => (epc'[q] = "done" /\ evec'[q] = vcache)
          /\ (epc[q] = "acquire" /\ epc'[q] # "acquire" /\ lockKey = Nil)
               => (acquired'[q] /\ lockKey' = q /\ epc'[q] = "recheck")
          /\ (epc[q] = "cache_set" /\ epc'[q] = "release")
               => vcache' = TrueVec
       ]_vars
  /\ \A q \in Requests :
       (Crashed /\ epc[q] = "wait") ~> (epc[q] = "done" /\ embCalls[q] = 0)
  /\ \A q \in Requests :
       (Crashed /\ lockKey = Nil /\ epc[q] = "acquire") ~> Settled(q)

\* C29 witness: the holder died in its provider call, its lock key expired,
\* and a request that came to the lock afterwards acquired it, computed the
\* vector and wrote it to the cache.
C29_Witness ==
  \E p, q \in Requests :
    /\ epc[p] = "crashed" /\ embCalls[p] = 1 /\ evec[p] = Nil
    /\ ehist.lockExpired /\ ~ehist.stolen
    /\ acquired[q] /\ embCalls[q] = 1 /\ epc[q] = "done"
    /\ evec[q] = TrueVec /\ vcache = TrueVec /\ lockKey = Nil

\* The vector path of the last call produced items.
VectorPathProduced ==
  last.hadVec /\ ~last.vecErr /\ Take(vecHits, RETRIEVAL_K) # <<>>

\* C30: retrieve_candidates returns the output of one path: the text search
\* runs only when the vector path produced no items (no vector, no result
\* or an error of the vector query) and the fallback text is not empty; the
\* list returned is the vector result, or the text result, or empty, never
\* a mix; an error of the text query gives an empty list and no exception.
C30_OnePathOnly ==
  (last.op = "recommend" /\ last.path \in {"fresh", "fallback_cache"})
    => /\ last.vecSearches = (IF last.hadVec THEN 1 ELSE 0)
       /\ last.textSearches \in {0, 1}
       /\ last.textSearches = 1
            <=> (~VectorPathProduced /\ last.use_text_fallback)
       /\ last.retrieved =
            (IF VectorPathProduced THEN Take(vecHits, RETRIEVAL_K)
             ELSE IF last.textSearches = 1 /\ ~last.textErr
               THEN Take(textHits, RETRIEVAL_K)
             ELSE <<>>)
       /\ (last.textSearches = 1 /\ last.textErr) => last.retrieved = <<>>

\* C30 witness: both searches have results of their own, the vector search
\* ran and its result alone was returned.
C30_Witness ==
  /\ last.op = "recommend" /\ last.path = "fresh"
  /\ last.use_text_fallback /\ VectorPathProduced
  /\ textHits # <<>> /\ Ids(textHits) # Ids(vecHits)
  /\ last.vecSearches = 1 /\ last.textSearches = 0
  /\ last.retrieved = vecHits

\* C31: no query the retrieval submits carries a filter clause that is
\* present and empty: a sent query has a filter with at least one
\* constraint or no filter at all, and with no clause in the effective
\* filters both paths leave the filter out.
C31_NoEmptyFilterClause ==
  sq.pc = "done"
    => /\ \A q \in {sq.vq, sq.tq} :
            (q.sent /\ q.filter.present) => q.filter.constraints # <<>>
       /\ sq.eff.clauses = <<>>
            => \A q \in {sq.vq, sq.tq} : q.sent => ~q.filter.present

\* The constraint a clause becomes in the query language of a path.
Translates(clause, c) ==
  /\ c.path = clause.path
  /\ \/ "search" \in DOMAIN c /\ c.search = clause.op
     \/ /\ "mql" \in DOMAIN c
        /\ c.mql = (IF clause.op = "equals" THEN "$eq"
                    ELSE IF clause.op = "range" THEN "$range"
                    ELSE IF clause.op = "in" THEN "$in"
                    ELSE IF clause.op = "exists" THEN "$exists"
                    ELSE IF clause.op = "not" THEN "$ne"
                    ELSE "$text")

\* C32: every clause of the filter set (equals, range, in, exists, not) has
\* its constraint in the vector query and in the text query, whichever is
\* sent: no clause is dropped on either path.
C32_EveryClauseOnBothPaths ==
  sq.pc = "done"
    => \A q \in {sq.vq, sq.tq} :
         q.sent
           => \A i \in DOMAIN sq.eff.clauses :
                sq.eff.clauses[i].op
                  \in {"equals", "range", "in", "exists", "not"}
                  => \E j \in DOMAIN q.filter.constraints :
                       Translates(sq.eff.clauses[i], q.filter.constraints[j])

\* C33: for a recommend request of kind K with a vector, the vector query
\* searches the field vectors.K.vector with limit RETRIEVAL_K and
\* numCandidates max(200, 10 x RETRIEVAL_K).
C33_VectorQueryTargetsKind ==
  (sq.pc = "done" /\ sq.vec)
    => /\ sq.vq.sent
       /\ sq.vq.path = VectorPath(sq.kind)
       /\ sq.vq.limit = RETRIEVAL_K
       /\ sq.vq.numCandidates = Max(200, 10 * RETRIEVAL_K)

\* The rerank of the run reached the completion provider.
RerankCalled ==
  /\ rpc = "done"
  /\ rin.candidates # <<>>
  /\ ~rin.hydrateErr
  /\ rin.kind \in PromptKinds

\* C34: a completion call that raises (provider error, timeout) is the last
\* call of the rerank, which fails open with the candidates as given; every
\* call that was followed by another one had returned a completion that
\* failed JSON or schema validation; and the k-th call sends the first
\* messages plus, for each earlier call, one corrective system message and
\* one message carrying the JSON schema.
C34_RetryOnlyOnInvalidCompletion ==
  RerankCalled
    => /\ rout.calls \in 1..(max_retries + 1)
       /\ \A j \in 1..(rout.calls - 1) :
            rin.answers[j].tag = "content" /\ ~ParseOk(rin.answers[j])
       /\ rin.answers[rout.calls].tag = "error"
            => ~rout.applied /\ ~rout.raised /\ rout.items = rin.candidates
       /\ Len(rout.messages) = 2 * rout.calls
       /\ SubSeq(rout.messages, 1, 2) = FirstMessages
       /\ \A j \in 1..(rout.calls - 1) :
            SubSeq(rout.messages, 2 * j + 1, 2 * j + 2) = RetryMessages

\* A rerank whose first completion failed validation and whose second call
\* raised: two calls, the second with four messages, candidates returned.
C34_Witness ==
  /\ RerankCalled
  /\ rin.answers[1].tag = "content" /\ ~ParseOk(rin.answers[1])
  /\ rin.answers[2].tag = "error"
  /\ rout.calls = 2
  /\ Len(rout.messages) = 4
  /\ rout.items = rin.candidates
  /\ Len(rin.candidates) = 2

\* The completion the rerank of the run accepted.
Accepted == rin.answers[rout.used].results

\* First position of product id p in the accepted completion.
FirstAt(p) ==
  CHOOSE i \in DOMAIN Accepted :
    /\ Accepted[i].product_id = p
    /\ \A j \in 1..(i - 1) : Accepted[j].product_id # p

Repeated(p) ==
  \E i, j \in DOMAIN Accepted :
    i # j /\ Accepted[i].product_id = p /\ Accepted[j].product_id = p

\* C35: when the accepted completion lists a candidate id more than once,
\* the returned item of that id is blended from the score of the first
\* occurrence and carries its rationale; no later occurrence is used.  (An
\* id whose document was not loaded is listed a second time with its
\* retrieval score and an empty rationale.)
C35_FirstOccurrenceWins ==
  (RerankCalled /\ rout.applied)
    => \A c \in DOMAIN rin.candidates :
         LET p == rin.candidates[c].product_id
             init == rin.candidates[c].score
         IN Repeated(p)
              => LET first == Accepted[FirstAt(p)]
                     score == Blend(first.score, init)
                     unloaded == p \notin rin.present
                 IN /\ \A i \in DOMAIN rout.items :
                         rout.items[i].product_id = p
                           => /\ \/ rout.items[i].score = score
                                 \/ unloaded /\ rout.items[i].score = init
                              /\ rin.include_rationale
                                   => \/ rout.items[i].rationale
                                           = first.rationale
                                      \/ unloaded
                                           /\ rout.items[i].rationale = ""
                    /\ score >= MinScoreThreshold(rin.kind)
                         => \E i \in DOMAIN rout.items :
                              /\ rout.items[i].product_id = p
                              /\ rout.items[i].score = score
                              /\ rin.include_rationale
                                   => rout.items[i].rationale
                                        = first.rationale

\* A rerank that accepted a completion naming id 1 twice, with scores 0.9
\* and 0.2, and returned id 1 with the rationale of the first occurrence.
C35_Witness ==
  /\ RerankCalled /\ rout.applied
  /\ Repeated(1)
  /\ Accepted[1].score # Accepted[2].score
  /\ 1 \in rin.present
  /\ rin.include_rationale
  /\ \E i \in DOMAIN rout.items :
       /\ rout.items[i].product_id = 1
       /\ rout.items[i].rationale = "first"
       /\ rout.items[i].score = Blend(Accepted[1].score, rin.candidates[1].score)

\* The distinct ids of the job and the group each one falls in, from the
\* arguments, the store and what the provider did with each chunk.
JobIds == Range(job.product_ids)

ChunkIds(outcomes) ==
  UNION { Range(job.chunks[i]) :
            i \in { k \in DOMAIN job.outcomes : job.outcomes[k] \in outcomes } }

\* Products of the chunks in which cache.set raised: those written before
\* it, and the one it raised for.
BeforeCacheRaise ==
  UNION { Range(Front(job.chunks[i])) :
            i \in { k \in DOMAIN job.outcomes :
                      job.outcomes[k] = "cache_raise" } }

Embedded == ChunkIds({"ok"}) \cup BeforeCacheRaise

InFailedChunk ==
  ChunkIds({"raise", "mismatch"})
    \cup (ChunkIds({"cache_raise"}) \ BeforeCacheRaise)

InCache == IF job.force THEN {} ELSE JobIds \cap job.cached0

InStore ==
  IF job.force THEN {}
  ELSE (JobIds \ InCache) \cap (job.stored0 \cup (job.late \cap job.exists))

NoDocument == (JobIds \ (InCache \cup InStore)) \ job.exists

EmptyText ==
  ((JobIds \ (InCache \cup InStore)) \cap job.exists) \cap job.textless

JobGroups ==
  <<InCache, InStore, Embedded, NoDocument, InFailedChunk,
    ChunkIds({"store_raise"}), EmptyText>>

\* Position of the first occurrence of an id in product_ids.
FirstSeen(pid) ==
  CHOOSE i \in DOMAIN job.product_ids :
    /\ job.product_ids[i] = pid
    /\ \A j \in 1..(i - 1) : job.product_ids[j] # pid

\* A sequence lists ids of the job once each, in first-seen order.
InFirstSeenOrder(seq) ==
  \A i, j \in DOMAIN seq : i < j => FirstSeen(seq[i]) < FirstSeen(seq[j])

\* C36: a finished batch job has handled each distinct id once, in
\* first-seen order, and its counts partition the distinct ids: cache_hits,
\* db_hits, embedded and missing_products count the ids found in the cache,
\* found with a stored vector, embedded and without a document; with the
\* ids a failed chunk left unwritten, of failed store writes and of empty
\* texts these groups are pairwise disjoint and add up to unique_ids.
C36_CountsPartitionIds ==
  job.pc = "done"
    => /\ job.cache_hits = Cardinality(InCache)
       /\ job.db_hits = Cardinality(InStore)
       /\ job.embedded = Cardinality(Embedded)
       /\ Range(job.missing_products) = NoDocument
       /\ \A a, b \in DOMAIN JobGroups :
            a # b => JobGroups[a] \cap JobGroups[b] = {}
       /\ UNION Range(JobGroups) = JobIds
       /\ job.cache_hits + job.db_hits + job.embedded
            + Len(job.missing_products)
            + Cardinality(InFailedChunk)
            + Cardinality(ChunkIds({"store_raise"}))
            + Cardinality(EmptyText)
            = Cardinality(JobIds)
       /\ InFirstSeenOrder(job.to_embed)
       /\ InFirstSeenOrder(job.missing_products)
       /\ InFirstSeenOrder(ConcatAll(job.chunks, 1))

\* A finished job over a list with a repeated id that had a cache hit, a
\* product without text and a failed chunk.
C36_Witness ==
  /\ job.pc = "done"
  /\ Cardinality(JobIds) < Len(job.product_ids)
  /\ job.cache_hits > 0
  /\ EmptyText # {}
  /\ InFailedChunk # {}

\* C37: the list rag_answer returns after a successful rerank holds ids of
\* the input candidates only (an id the model invented is ignored) and
\* holds each id at most once, the candidates whose document could not be
\* loaded included.
C37_OnlyCandidateIdsOnce ==
  (RerankCalled /\ rout.applied)
    => /\ \A i \in DOMAIN rout.items :
            \E c \in DOMAIN rin.candidates :
              rin.candidates[c].product_id = rout.items[i].product_id
       /\ \A i, j \in DOMAIN rout.items :
            rout.items[i].product_id = rout.items[j].product_id => i = j

\* A recommend call that follows a recommend call of the same run with the
\* same rerank flag and another include_rationale or use_text_fallback,
\* with no cache entry expired in between: both build the same cache key.
SameKeyOtherFlags ==
  /\ last.op = "recommend" /\ last.path # "raised"
  /\ last'.op = "recommend"
  /\ ~expiredSince
  /\ last'.use_llm = last.use_llm
  /\ \/ last'.include_rationale # last.include_rationale
     \/ last'.use_text_fallback # last.use_text_fallback

StoredUnderRequestedKey ==
  /\ last.items # <<>>
  /\ \/ last.path = "cache_hit"
     \/ last.path = "fresh" /\ last.llm_applied = last.use_llm

PersonalFreshCall ==
  /\ last.op = "xsell"
  /\ last.path \notin {"cache_hit", "legacy_hit"}
  /\ xs.user_id # "None"
  /\ xs.exclude_already_purchased
  /\ ~senv.histErr

\* C39: with a user id the mining reads the purchase events of that user
\* only, so every mined candidate is a product the user purchased; with
\* exclude_already_purchased and a purchased-ids lookup that succeeds the
\* exclusion removes them all and the fresh result is empty.
C39_PersonalExclusionEmptiesResult ==
  /\ (svc = "xsell" /\ xs.user_id # "None")
       => \A mined \in MineResults(xs.orders, XPid, xs.user_id, 4 * FINAL_K) :
            \A i \in DOMAIN mined :
              mined[i].product_id \in PurchasedIds(xs.orders, xs.user_id)
  /\ PersonalFreshCall
       => last.items = <<>> /\ last.count = 0

\* Such a call, for a user who bought the product together with others: all
\* mined candidates were excluded and nothing is returned.
C39_Witness ==
  /\ PersonalFreshCall
  /\ last.path = "excluded_all"
  /\ \E o \in xs.orders :
       o.user = xs.user_id /\ XPid \in o.prods /\ o.prods # {XPid}
  /\ last.items = <<>>

\* Request p holds or held the lock, got a vector from the provider and is
\* past the cache write without an exception: it is about to delete the
\* lock key or has deleted it.
ComputedAndReleasing(p) ==
  /\ acquired[p] /\ embCalls[p] >= 1 /\ ~eraised[p]
  /\ evec[p] # Nil
  /\ epc[p] \in {"release", "done"}

\* C40: the lock holder writes the computed vector to the cache before it
\* deletes the lock key: from the moment the holder is at its release, and
\* so in every state in which it has released the lock after a successful
\* computation, the cache holds the vector, as long as no cached vector
\* reached its TTL.
C40_VectorCachedBeforeRelease ==
  \A p \in Requests :
    (ComputedAndReleasing(p) /\ ~ehist.cacheExpired) => vcache = evec[p]

\* A holder computed the vector and released the lock, and a request that
\* had polled the lock key read the vector from the cache afterwards.
C40_Witness ==
  \E p, q \in Requests :
    /\ p # q
    /\ ComputedAndReleasing(p) /\ epc[p] = "done"
    /\ lockKey = Nil /\ ~ehist.cacheExpired /\ ~ehist.lockExpired
    /\ ~acquired[q] /\ polls[q] > 0 /\ epc[q] = "done"
    /\ evec[q] = evec[p]
    /\ vcache = evec[p]

====
